---- MODULE Spec2Model ----
(***************************************************************************)
(* Reconciliation of payout records into the daily and the hourly sheet:   *)
(* GoogleSheetsClient (sheets_client.py) and the engine entry points       *)
(* (app.py).  A sheet is a header row and an ordered list of data rows; a  *)
(* row's position is its only identity.  Every handler is one action; the  *)
(* store calls it issues are threaded through a run record `st` that also  *)
(* carries the log of the calls and the set of call ordinals that raise.   *)
(***************************************************************************)
EXTENDS Integers, Sequences, FiniteSets, TLC

VARIABLES daily, hourly, today, last, prev, hour, feed, loop

vars == <<daily, hourly, today, last, prev, hour, feed, loop>>

----------------------------------------------------------------------------
(* Bounds of the model *)

MaxRows == 3      \* data rows a sheet may hold
MaxRecs == 2      \* records of one write
MaxInitRows == 1  \* data rows of a sheet before the first operation
MaxDay == 3       \* last local day of the clock
MaxHour == 11     \* last local hour of the clock on a day
MaxFailAt == 4    \* store and fetch calls 1..MaxFailAt of a run may raise

----------------------------------------------------------------------------
(* Strings: Python's str.lower, str.upper, str.strip on the vocabulary *)

Lower(s) ==
    CASE s \in {"Date", "DATE"} -> "date"
      [] s \in {"Status", "STATUS"} -> "status"
      [] s = "Publisher" -> "publisher"
      [] s = "Campaign" -> "campaign"
      [] s = "Payout" -> "payout"
      [] s = "Target" -> "target"
      [] s = "Hour" -> "hour"
      [] OTHER -> s

Strip(s) ==
    CASE s = "final " -> "final"
      [] s = " live" -> "live"
      [] OTHER -> s

Upper(s) ==
    CASE s = "final" -> "FINAL"
      [] s = "live" -> "LIVE"
      [] OTHER -> s

----------------------------------------------------------------------------
(* Sequences *)

MaxOf(S) == CHOOSE x \in S : \A y \in S : y <= x
MinOf(S) == CHOOSE x \in S : \A y \in S : x <= y
Larger(a, b) == IF a >= b THEN a ELSE b

Blank(n) == [i \in 1..n |-> ""]

IsBlank(r) == \A i \in 1..Len(r) : r[i] = ""

RECURSIVE Trim(_)
\* a row as the store returns it: trailing empty cells are not there
Trim(r) == IF r # <<>> /\ r[Len(r)] = "" THEN Trim(SubSeq(r, 1, Len(r) - 1)) ELSE r

Pad(r, n) == [i \in 1..Larger(Len(r), n) |-> IF i <= Len(r) THEN r[i] ELSE ""]

\* the cells of `new` written over the row `old`; cells beyond `new` stay
Overlay(old, new) ==
    [i \in 1..Larger(Len(old), Len(new)) |-> IF i <= Len(new) THEN new[i] ELSE old[i]]

SetAt(r, i, v) == [r EXCEPT ![i] = v]

RECURSIVE TrimRows(_)
\* trailing blank rows are not part of the sheet's values
TrimRows(rs) ==
    IF rs # <<>> /\ IsBlank(rs[Len(rs)]) THEN TrimRows(SubSeq(rs, 1, Len(rs) - 1)) ELSE rs

RemoveAt(rs, i) == [j \in 1..(Len(rs) - 1) |-> IF j < i THEN rs[j] ELSE rs[j + 1]]

----------------------------------------------------------------------------
(* The store (gspread Worksheet).  A run record st is                     *)
(*   hdr, rows : the sheet;  log : the store calls issued so far, each    *)
(*   <<name, position, ok>>;  fail : the ordinals of the calls that raise;*)
(*   exc : an exception is propagating;  ret : the last return value;     *)
(*   count : the row count the handler reports;  status : its status tag; *)
(*   out : the records the handler has handed to a writer.                *)

Sheet(h, rs) == [hdr |-> h, rows |-> rs]

Run(sh, F) == [hdr |-> sh.hdr, rows |-> sh.rows, log |-> <<>>, fail |-> F,
               exc |-> FALSE, ret |-> 0, count |-> 0, status |-> "", out |-> <<>>]

SheetOf(st) == Sheet(st.hdr, st.rows)

Raises(st) == (Len(st.log) + 1) \in st.fail

Logged(st, name, pos) == [st EXCEPT !.log = Append(@, <<name, pos, ~Raises(st)>>)]

Return(st, v) == [st EXCEPT !.ret = v, !.exc = FALSE]

Width(st) ==
    LET ws == {Len(st.hdr)} \cup {Len(st.rows[i]) : i \in 1..Len(st.rows)}
    IN  MaxOf(ws)

\* Worksheet.get_all_values(): header and data rows, padded to one width;
\* an empty sheet gives the empty list
AllValues(st) ==
    IF st.hdr = <<>> /\ st.rows = <<>> THEN <<>>
    ELSE <<Pad(st.hdr, Width(st))>> \o [i \in 1..Len(st.rows) |-> Pad(st.rows[i], Width(st))]

get_all_values(st) ==
    IF Raises(st) THEN [Logged(st, "get_all_values", 0) EXCEPT !.exc = TRUE]
    ELSE [Logged(st, "get_all_values", 0) EXCEPT !.ret = AllValues(st)]

\* Worksheet.row_values(1)
row_values(st) ==
    IF Raises(st) THEN [Logged(st, "row_values", 1) EXCEPT !.exc = TRUE]
    ELSE [Logged(st, "row_values", 1) EXCEPT !.ret = st.hdr]

\* Worksheet.update("1:1", [keys])
update_header(st, keys) ==
    IF Raises(st) THEN [Logged(st, "update_header", 1) EXCEPT !.exc = TRUE]
    ELSE [Logged(st, "update_header", 1) EXCEPT !.hdr = Trim(Overlay(st.hdr, keys))]

\* the data rows after new rows are written from sheet row `start` on
RowsUpdated(rs, start, new) ==
    LET n == Larger(Len(rs), start - 2 + Len(new))
    IN  TrimRows([i \in 1..n |->
            IF i >= start - 1 /\ i <= start - 2 + Len(new)
            THEN Overlay(IF i <= Len(rs) THEN rs[i] ELSE <<>>, new[i - (start - 2)])
            ELSE IF i <= Len(rs) THEN rs[i] ELSE Blank(Len(new[1]))])

\* Worksheet.update("<start>:<end>", rows); start >= 2
update_rows(st, start, new) ==
    IF Raises(st) THEN [Logged(st, "update_rows", start) EXCEPT !.exc = TRUE]
    ELSE [Logged(st, "update_rows", start) EXCEPT !.rows = RowsUpdated(st.rows, start, new)]

\* Worksheet.update("<col><row>", [[v]]); row >= 2, col 1-based
update_cell(st, row, col, v) ==
    IF Raises(st) THEN [Logged(st, "update_cell", row) EXCEPT !.exc = TRUE]
    ELSE [Logged(st, "update_cell", row) EXCEPT
            !.rows = IF row - 1 <= Len(st.rows)
                     THEN TrimRows([st.rows EXCEPT ![row - 1] = SetAt(Pad(@, col), col, v)])
                     ELSE st.rows]

\* Worksheet.delete_rows(row); row >= 2
delete_rows(st, row) ==
    IF Raises(st) THEN [Logged(st, "delete_rows", row) EXCEPT !.exc = TRUE]
    ELSE [Logged(st, "delete_rows", row) EXCEPT
            !.rows = IF row - 1 <= Len(st.rows) THEN TrimRows(RemoveAt(st.rows, row - 1))
                     ELSE st.rows]

\* Worksheet.batch_clear(["2:<last>"])
batch_clear(st, lastRow) ==
    IF Raises(st) THEN [Logged(st, "batch_clear", lastRow) EXCEPT !.exc = TRUE]
    ELSE [Logged(st, "batch_clear", lastRow) EXCEPT
            !.rows = TrimRows([i \in 1..Len(st.rows) |->
                        IF i + 1 <= lastRow THEN Blank(Len(st.rows[i])) ELSE st.rows[i]])]

\* Worksheet.append_row(row): after the last row that holds a value
append_row(st, row) ==
    IF Raises(st) THEN [Logged(st, "append_row", Len(st.rows) + 2) EXCEPT !.exc = TRUE]
    ELSE [Logged(st, "append_row", Len(st.rows) + 2) EXCEPT !.rows = Append(st.rows, row)]

----------------------------------------------------------------------------
(* Sequencing of store calls *)

\* s = <call>; <rest of the block>
Let(st, K(_)) == K(st)

\* the same, where an exception of the call leaves the block
OnOk(st, K(_)) == IF st.exc THEN st ELSE K(st)

\* try: <call> except Exception: return default
Caught(st, default) == IF st.exc THEN Return(st, default) ELSE st

----------------------------------------------------------------------------
(* The clock: local days in America/New_York *)

\* strftime("%Y-%m-%d") of the local day d
DateStr(d) ==
    CASE d = -2 -> "2026-01-01" [] d = -1 -> "2026-01-02" [] d = 0 -> "2026-01-03"
      [] d = 1 -> "2026-01-04" [] d = 2 -> "2026-01-05" [] d = 3 -> "2026-01-06"
      [] d = 4 -> "2026-01-07" [] d = 5 -> "2026-01-08" [] OTHER -> "2026-01-09"

\* datetime.weekday(): 0 is Monday; 2026-01-05 is a Monday
Weekday(d) == (d + 5) % 7

\* the date written without leading zeros; strptime's %m and %d take one
\* digit as well as two
LooseStr(d) ==
    CASE d = -2 -> "2026-1-1" [] d = -1 -> "2026-1-2" [] d = 0 -> "2026-1-3"
      [] d = 1 -> "2026-1-4" [] d = 2 -> "2026-1-5" [] d = 3 -> "2026-1-6"
      [] d = 4 -> "2026-1-7" [] d = 5 -> "2026-1-8" [] OTHER -> "2026-1-9"

\* datetime.strptime(date, "%Y-%m-%d") succeeds
ValidDate(s) == \E d \in -2..6 : s \in {DateStr(d), LooseStr(d)}

\* the local day of a valid date string
DayOf(s) == CHOOSE d \in -2..6 : s \in {DateStr(d), LooseStr(d)}

----------------------------------------------------------------------------
(* GoogleSheetsClient *)

StatusIdx == 6     \* header[5] / row[5], column F, 1-based
MinCols == 6       \* max(len(header), 6)

\* for idx, col_name in enumerate(header): if col_name.lower() == name: idx
\* (no break: the last match stays); 0 is None
ColLast(header, name) ==
    LET S == {i \in 1..Len(header) : Lower(header[i]) = name}
    IN  IF S = {} THEN 0 ELSE MaxOf(S)

\* the same loop with a break: the first match
ColFirst(header, name) ==
    LET S == {i \in 1..Len(header) : Lower(header[i]) = name}
    IN  IF S = {} THEN 0 ELSE MinOf(S)

\* dict.get(key, default) of a record of a fetch
Get(pub, key, default) == IF key \in DOMAIN pub THEN pub[key] ELSE default

\* str(n) of an amount
IntStr(n) ==
    CASE n = 0 -> "0" [] n = 1 -> "1" [] n = 2 -> "2" [] n = 3 -> "3" [] n = 4 -> "4"
      [] n = 5 -> "5" [] n = 6 -> "6" [] n = 7 -> "7" [] n = 8 -> "8" [] OTHER -> "9+"

\* str(pub.get("Payout", ""))
PayoutStr(pub) == IF "Payout" \in DOMAIN pub THEN IntStr(pub["Payout"]) ELSE ""

_get_header_row(st) == Caught(row_values(st), <<>>)

_set_header_row(st, keys) == update_header(st, keys)

HasStatus(header) == \E i \in 1..Len(header) : Lower(header[i]) = "status"

_ensure_status_column(st) ==
    Let(_get_header_row(st), LAMBDA s1 :
        IF HasStatus(s1.ret) THEN s1
        ELSE _set_header_row(s1, SetAt(Pad(s1.ret, MinCols), StatusIdx, "Status")))

RECURSIVE DeleteAscending(_, _, _)
\* a pass that deletes the selected positions from the top of the sheet down
DeleteAscending(st, S, catchEach) ==
    IF S = {} THEN st
    ELSE Let(delete_rows(st, MinOf(S)), LAMBDA s1 :
            IF s1.exc /\ ~catchEach THEN s1
            ELSE DeleteAscending([s1 EXCEPT !.exc = FALSE], S \ {MinOf(S)}, catchEach))

RECURSIVE DeleteDescending(_, _, _)
\* rows_to_delete.sort(reverse=True); for row_num: delete_rows(row_num).
\* catchEach: the call sits in its own try/except and the loop goes on.
DeleteDescending(st, S, catchEach) ==
    IF S = {} THEN st
    ELSE Let(delete_rows(st, MaxOf(S)), LAMBDA s1 :
            IF s1.exc /\ ~catchEach THEN s1
            ELSE DeleteDescending([s1 EXCEPT !.exc = FALSE], S \ {MaxOf(S)}, catchEach))

\* the sheet rows (2-based positions) _delete_today_live_rows selects
LiveRowsOf(all, today_date) ==
    LET header == all[1]
        date_col == ColLast(header, "date")
        status_col == ColLast(header, "status")
    IN  IF date_col = 0 THEN {}
        ELSE {i \in 2..Len(all) :
                /\ Len(all[i]) >= date_col
                /\ Strip(all[i][date_col]) = today_date
                /\ \/ status_col # 0 /\ Len(all[i]) >= status_col
                      /\ Upper(Strip(all[i][status_col])) = "LIVE"
                   \/ status_col = 0}

_delete_today_live_rows(st, today_date) ==
    Let(get_all_values(st), LAMBDA s1 :
        IF s1.exc THEN Return(s1, 0)
        ELSE IF Len(s1.ret) <= 1 THEN Return(s1, 0)
        ELSE Let(DeleteDescending(s1, LiveRowsOf(s1.ret, today_date), FALSE), LAMBDA s2 :
                IF s2.exc THEN Return(s2, 0)
                ELSE Return(s2, Cardinality(LiveRowsOf(s1.ret, today_date)))))

\* whether the values read hold a FINAL row for the date
FinalIn(all, target_date) ==
    LET header == all[1]
        date_col == ColLast(header, "date")
        status_col == ColLast(header, "status")
    IN  /\ date_col # 0
        /\ status_col # 0
        /\ \E i \in 2..Len(all) :
              /\ Len(all[i]) >= date_col
              /\ Strip(all[i][date_col]) = target_date
              /\ Len(all[i]) >= status_col
              /\ Upper(Strip(all[i][status_col])) = "FINAL"

_has_finalized_data_for_date(st, target_date) ==
    Let(get_all_values(st), LAMBDA s1 :
        IF s1.exc THEN Return(s1, FALSE)
        ELSE IF Len(s1.ret) <= 1 THEN Return(s1, FALSE)
        ELSE Return(s1, FinalIn(s1.ret, target_date)))

\* row[header_dict[name]] = v if the header names the column, else row[pos] = v
\* if the header is longer than pos (0-based)
PutField(row, header, name, pos, v) ==
    IF ColLast(header, name) # 0 THEN SetAt(row, ColLast(header, name), v)
    ELSE IF Len(header) > pos THEN SetAt(row, pos + 1, v)
    ELSE row

\* row[header_dict["status"]] = "LIVE" if the header names it, else row[5] = "LIVE"
PutStatus(row, header) ==
    IF ColLast(header, "status") # 0 THEN SetAt(row, ColLast(header, "status"), "LIVE")
    ELSE SetAt(row, StatusIdx, "LIVE")

\* one LIVE row of write_today_hourly_payouts
LiveRow(header, pub, today_date) ==
    PutStatus(
      PutField(
        PutField(
          PutField(
            PutField(Blank(Larger(Len(header), MinCols)),
                     header, "date", 0, Get(pub, "Date", today_date)),
            header, "publisher", 1, Get(pub, "Publisher", "")),
          header, "campaign", 2, Get(pub, "Campaign", "")),
        header, "payout", 3, PayoutStr(pub)),
      header)

LiveRows(header, publishers, today_date) ==
    [i \in 1..Len(publishers) |-> LiveRow(header, publishers[i], today_date)]

\* the try block that appends the rows: read, extend the header, write
AppendLive(st, header, rows) ==
    OnOk(get_all_values(st), LAMBDA s5 :
        OnOk(IF Len(header) < Len(rows[1])
             THEN _set_header_row(s5, Pad(header, Len(rows[1])))
             ELSE s5,
             LAMBDA s6 : update_rows(s6, Len(s5.ret) + 1, rows)))

write_today_hourly_payouts(st, publishers, today_date) ==
    IF publishers = <<>> THEN st
    ELSE OnOk(_ensure_status_column(st), LAMBDA s1 :
            Let(_has_finalized_data_for_date(s1, today_date), LAMBDA s2 :
                IF s2.ret THEN s2
                ELSE Let(_get_header_row(_delete_today_live_rows(s2, today_date)), LAMBDA s4 :
                        AppendLive(s4, s4.ret, LiveRows(s4.ret, publishers, today_date)))))

\* the sheet rows finalize_live_data_for_dates patches
\* a selection that takes the rows of the dates whatever their status
StatusRowsOfDates(all, dates) ==
    LET header == all[1]
        date_col == ColLast(header, "date")
        status_col == ColLast(header, "status")
    IN  IF date_col = 0 \/ status_col = 0 THEN {}
        ELSE {i \in 2..Len(all) :
                /\ Len(all[i]) >= date_col
                /\ Strip(all[i][date_col]) \in dates
                /\ Len(all[i]) >= status_col}

LiveRowsOfDates(all, dates) ==
    LET header == all[1]
        date_col == ColLast(header, "date")
        status_col == ColLast(header, "status")
    IN  IF date_col = 0 \/ status_col = 0 THEN {}
        ELSE {i \in 2..Len(all) :
                /\ Len(all[i]) >= date_col
                /\ Strip(all[i][date_col]) \in dates
                /\ Len(all[i]) >= status_col
                /\ Upper(Strip(all[i][status_col])) = "LIVE"}

RECURSIVE PatchAscending(_, _, _)
\* for row_idx in rows_to_update: sheet.update("<col><row_idx>", [["FINAL"]])
PatchAscending(st, S, col) ==
    IF S = {} THEN st
    ELSE OnOk(update_cell(st, MinOf(S), col, "FINAL"), LAMBDA s1 :
            PatchAscending(s1, S \ {MinOf(S)}, col))

finalize_live_data_for_dates(st, dates) ==
    IF dates = {} THEN Return(st, 0)
    ELSE Let(get_all_values(st), LAMBDA s1 :
            IF s1.exc THEN Return(s1, 0)
            ELSE IF Len(s1.ret) <= 1 THEN Return(s1, 0)
            ELSE Let(PatchAscending(s1, LiveRowsOfDates(s1.ret, dates),
                                    ColLast(s1.ret[1], "status")), LAMBDA s2 :
                    IF s2.exc THEN Return(s2, 0)
                    ELSE Return(s2, Cardinality(LiveRowsOfDates(s1.ret, dates)))))

finalize_today_data(st, today_date) == finalize_live_data_for_dates(st, {today_date})

\* header = ["Date", "Publisher", "Campaign", "Payout", "", "Status"]
DailyHeader == <<"Date", "Publisher", "Campaign", "Payout", "", "Status">>

\* one FINAL row of write_publisher_payouts
FinalRow(pub) ==
    <<Get(pub, "Date", ""), Get(pub, "Publisher", ""), Get(pub, "Campaign", ""),
      PayoutStr(pub), "", "FINAL">>

FinalRows(publishers) == [i \in 1..Len(publishers) |-> FinalRow(publishers[i])]

\* dates_to_process: the non-empty stripped dates of the records
DatesToProcess(publishers) ==
    {Strip(Get(publishers[i], "Date", "")) : i \in 1..Len(publishers)} \ {""}

\* the sheet rows of the dates, LIVE or FINAL, located through the header read
\* before the finalize step
RowsOfDates(all, dates) ==
    LET date_col == ColFirst(all[1], "date")
    IN  IF date_col = 0 THEN {}
        ELSE {i \in 2..Len(all) :
                Len(all[i]) >= date_col /\ Strip(all[i][date_col]) \in dates}

RECURSIVE AppendEach(_, _)
\* for row in rows: sheet.append_row(row)
AppendEach(st, rows) ==
    IF rows = <<>> THEN st
    ELSE OnOk(append_row(st, Head(rows)), LAMBDA s1 : AppendEach(s1, Tail(rows)))

\* if clear_existing: try: clear rows 2..len except: warn
ClearExisting(st) ==
    Let(get_all_values(st), LAMBDA s1 :
        IF s1.exc THEN Return(s1, 0)
        ELSE IF Len(s1.ret) > 1 THEN Return(batch_clear(s1, Len(s1.ret)), 0)
        ELSE s1)

\* the steps in another order: the rows are deleted before the patches
DeleteThenFinalize(st, all, dates) ==
    IF dates = {} THEN st
    ELSE finalize_live_data_for_dates(DeleteDescending(st, RowsOfDates(all, dates), FALSE), dates)

\* steps 1 and 2: finalize the LIVE rows of the dates, then delete every row
\* of the dates at the positions read before
FinalizeAndDelete(st, all, dates) ==
    IF dates = {} THEN st
    ELSE DeleteDescending(finalize_live_data_for_dates(st, dates), RowsOfDates(all, dates), FALSE)

\* the try block of the clear_existing=False branch
ReplaceDates(st, publishers) ==
    OnOk(get_all_values(st), LAMBDA s1 :
        IF Len(s1.ret) <= 1 THEN update_rows(s1, 2, FinalRows(publishers))
        ELSE OnOk(FinalizeAndDelete(s1, s1.ret, DatesToProcess(publishers)), LAMBDA s4 :
                OnOk(get_all_values(s4), LAMBDA s5 :
                    update_rows(s5, Len(s5.ret) + 1, FinalRows(publishers)))))

\* except Exception: for row in rows: append_row(row)
\* a fallback that writes the rows from row 2 on
FallbackOverwrite(st, publishers) ==
    IF st.exc THEN update_rows([st EXCEPT !.exc = FALSE], 2, FinalRows(publishers)) ELSE st

FallbackAppend(st, publishers) ==
    IF st.exc THEN AppendEach([st EXCEPT !.exc = FALSE], FinalRows(publishers)) ELSE st

write_publisher_payouts(st, publishers, clear_existing) ==
    IF publishers = <<>> THEN st
    ELSE OnOk(_ensure_status_column(st), LAMBDA s1 :
            OnOk(_set_header_row(s1, DailyHeader), LAMBDA s2 :
                IF clear_existing THEN update_rows(ClearExisting(s2), 2, FinalRows(publishers))
                ELSE FallbackAppend(ReplaceDates(s2, publishers), publishers)))

----------------------------------------------------------------------------
(* RingbaClient.get_publisher_payouts: one POST, then the records of the  *)
(* response.  `a or b or default`: the first value that is neither        *)
(* missing nor falsy ("" and 0 are falsy).                                *)

FirstName(item, keys) ==
    LET S == {i \in 1..Len(keys) : Get(item, keys[i], "") # ""}
    IN  IF S = {} THEN "Unknown" ELSE item[keys[MinOf(S)]]

FirstAmount(item, keys) ==
    LET S == {i \in 1..Len(keys) : Get(item, keys[i], 0) # 0}
    IN  IF S = {} THEN 0 ELSE item[keys[MinOf(S)]]

\* if publisher_name != "Unknown" or payout_amount != 0: publishers.append(...)
Kept(name, amount) ==
    IF name # "Unknown" \/ amount # 0 THEN <<[Publisher |-> name, Payout |-> amount]>> ELSE <<>>

RECURSIVE Extract(_, _, _)
\* for group in items: ...
Extract(items, nameKeys, amountKeys) ==
    IF items = <<>> THEN <<>>
    ELSE Kept(FirstName(Head(items), nameKeys), FirstAmount(Head(items), amountKeys))
            \o Extract(Tail(items), nameKeys, amountKeys)

\* the records returned for a decoded response body
Publishers(data) ==
    IF "groups" \in DOMAIN data
    THEN Extract(data.groups, <<"publisherName", "Publisher", "publisher", "name">>,
                 <<"payoutAmount", "Payout", "payout", "amount">>)
    ELSE IF "data" \in DOMAIN data
    THEN Extract(data.data, <<"publisherName", "Publisher">>, <<"payoutAmount", "Payout">>)
    ELSE <<>>

\* the call as the engine sees it: `bucket` names the requested range in the log
get_publisher_payouts(st, bucket, data) ==
    IF Raises(st) THEN [Logged(st, "fetch", bucket) EXCEPT !.exc = TRUE]
    ELSE [Logged(st, "fetch", bucket) EXCEPT !.ret = Publishers(data)]

----------------------------------------------------------------------------
(* Engine entry points on the daily sheet (app.py) *)

\* the result of a handler: its status tag; nothing propagates out of it
Status(st, tag) == [st EXCEPT !.status = tag, !.exc = FALSE]

\* a block without its except clause: the exception leaves the handler
Propagated(st, good, bad) == IF st.exc THEN st ELSE Status(st, good)

\* the tag of a block that ends the handler: `bad` if it raised, else `good`
Ended(st, good, bad) == IF st.exc THEN Status(st, bad) ELSE Status(st, good)

sync_publisher_payouts(st, day, data, clear_existing) ==
    Let(get_publisher_payouts(st, day - 1, data), LAMBDA s1 :
        IF s1.exc THEN Status(s1, "error")
        ELSE IF s1.ret = <<>> THEN Status(s1, "success")
        ELSE Ended(write_publisher_payouts(s1, s1.ret, clear_existing), "success", "error"))

\* the rows whose column A holds the date (date_col_index = 0)
RowsOfDateA(all, date) ==
    {i \in 2..Len(all) : Len(all[i]) > 0 /\ Strip(all[i][1]) = date}

\* if clear_existing: try: read, delete bottom-up (each in its own try) except: warn
ClearDate(st, date) ==
    Let(get_all_values(st), LAMBDA s1 :
        IF s1.exc THEN Return(s1, 0)
        ELSE Return(DeleteDescending(s1, RowsOfDateA(s1.ret, date), TRUE), 0))

\* a sync that clears the rows of the date before it looks at the fetch
ClearingFirst(st, date, data, clear_existing) ==
    IF ~ValidDate(date) THEN Status(st, "400")
    ELSE Let(get_publisher_payouts(st, DayOf(date), data), LAMBDA s1 :
            IF s1.exc THEN Status(s1, "error")
            ELSE Let(IF clear_existing THEN ClearDate(s1, date) ELSE s1, LAMBDA s2 :
                    IF s1.ret = <<>> THEN Status(s2, "success")
                    ELSE Ended(write_publisher_payouts(s2, s1.ret, FALSE), "success", "error")))

sync_date(st, date, data, clear_existing) ==
    IF ~ValidDate(date) THEN Status(st, "400")
    ELSE Let(get_publisher_payouts(st, DayOf(date), data), LAMBDA s1 :
            IF s1.exc THEN Status(s1, "error")
            ELSE IF s1.ret = <<>> THEN Status(s1, "success")
            ELSE Ended(write_publisher_payouts(IF clear_existing THEN ClearDate(s1, date) ELSE s1,
                                               s1.ret, FALSE),
                       "success", "error"))

RECURSIVE FetchDays(_, _, _, _)
\* for day in days: all_publishers.extend(get_publisher_payouts(day)); acc in ret
FetchDays(st, days, datas, acc) ==
    IF days = <<>> THEN [st EXCEPT !.ret = acc]
    ELSE OnOk(get_publisher_payouts(st, Head(days), Head(datas)), LAMBDA s1 :
            FetchDays(s1, Tail(days), Tail(datas), acc \o s1.ret))

\* Monday: Friday, Saturday, Sunday; else the previous day
\* a backfill of the previous day on every weekday
PreviousDayOnly(day) == <<day - 1>>

BackfillDays(day) == IF Weekday(day) = 0 THEN <<day - 3, day - 2, day - 1>> ELSE <<day - 1>>

run_end_of_day_report(st, day, datas) ==
    Let(FetchDays(st, BackfillDays(day), datas, <<>>), LAMBDA s1 :
        IF s1.exc THEN Status(s1, "logged")
        ELSE IF s1.ret = <<>> THEN Status(s1, "none")
        ELSE Ended(write_publisher_payouts(s1, s1.ret, FALSE), "done", "logged"))

----------------------------------------------------------------------------
(* Engine entry points on the hourly sheet (app.py) *)

FinalizeDateCol == 1     \* date_col_index = 0
FinalizeStatusCol == 8   \* status_col_index = 7, column H
CleanupStatusCol == 7    \* status_col_index = 6
CleanupHourCol == 8      \* hour_col_index = 7

\* the rows a finalize that does not compare the date with the previous day
\* selects: the LIVE rows of every date but the local date
OtherDayLiveRows(all, day) ==
    {i \in 2..Len(all) :
        /\ Len(all[i]) > Larger(FinalizeStatusCol, FinalizeDateCol) - 1
        /\ Strip(all[i][FinalizeDateCol]) # DateStr(day)
        /\ Upper(Strip(all[i][FinalizeStatusCol])) = "LIVE"}

\* the rows a finalize without the date test selects: the LIVE rows of the
\* local date as well
LiveRowsUpToToday(all, day) ==
    {i \in 2..Len(all) :
        /\ Len(all[i]) > Larger(FinalizeStatusCol, FinalizeDateCol) - 1
        /\ Upper(Strip(all[i][FinalizeStatusCol])) = "LIVE"
        /\ Strip(all[i][FinalizeDateCol]) \in {DateStr(day - 1), DateStr(day)}}

\* the sheet rows finalize_previous_day_data appends to rows_to_update
\* a selection that catches up: the LIVE rows of every day before the run's
LiveRowsBeforeToday(all, day) ==
    {i \in 2..Len(all) :
        /\ Len(all[i]) > Larger(FinalizeStatusCol, FinalizeDateCol) - 1
        /\ Upper(Strip(all[i][FinalizeStatusCol])) = "LIVE"
        /\ \E d \in -2..(day - 1) : Strip(all[i][FinalizeDateCol]) = DateStr(d)}

PreviousDayLiveRows(all, day) ==
    {i \in 2..Len(all) :
        /\ Len(all[i]) > Larger(FinalizeStatusCol, FinalizeDateCol) - 1
        /\ Strip(all[i][FinalizeDateCol]) # DateStr(day)
        /\ Upper(Strip(all[i][FinalizeStatusCol])) = "LIVE"
        /\ Strip(all[i][FinalizeDateCol]) = DateStr(day - 1)}

RECURSIVE PatchEach(_, _, _)
\* for row_num in rows_to_update: try: update("H<row_num>", [["FINAL"]])
\* except: failed_updates += 1;  count: successful_updates
PatchEach(st, S, col) ==
    IF S = {} THEN st
    ELSE Let(update_cell(st, MinOf(S), col, "FINAL"), LAMBDA s1 :
            PatchEach([s1 EXCEPT !.exc = FALSE, !.count = IF s1.exc THEN @ ELSE @ + 1],
                      S \ {MinOf(S)}, col))

finalize_previous_day_data(st, day) ==
    Let(get_all_values(st), LAMBDA s1 :
        IF s1.exc THEN Status(s1, "logged")
        ELSE IF Len(s1.ret) <= 1 THEN Status(s1, "none")
        ELSE Status(PatchEach(s1, PreviousDayLiveRows(s1.ret, day), FinalizeStatusCol), "done"))

\* rows_by_hour: the rows that are long enough, not FINAL in the status column
\* and hold a non-empty hour identifier
Grouped(all) ==
    {i \in 2..Len(all) :
        /\ Len(all[i]) > CleanupHourCol - 1
        /\ Upper(Strip(all[i][CleanupStatusCol])) # "FINAL"
        /\ Strip(all[i][CleanupHourCol]) # ""}

\* row_numbers[1:]: all rows of a group but the first
DuplicatesButFirst(all) ==
    {i \in Grouped(all) :
        \E j \in Grouped(all) :
            j < i /\ Strip(all[j][CleanupHourCol]) = Strip(all[i][CleanupHourCol])}

\* row_numbers[:-1] of every hour identifier: all rows of a group but the last
Duplicates(all) ==
    {i \in Grouped(all) :
        \E j \in Grouped(all) :
            j > i /\ Strip(all[j][CleanupHourCol]) = Strip(all[i][CleanupHourCol])}

cleanup_hourly_duplicates(st) ==
    Let(get_all_values(st), LAMBDA s1 :
        IF s1.exc THEN Status(s1, "error")
        ELSE IF Len(s1.ret) <= 1 THEN Status(s1, "success")
        ELSE Status([DeleteDescending(s1, Duplicates(s1.ret), TRUE)
                        EXCEPT !.count = Cardinality(Duplicates(s1.ret))], "success"))

----------------------------------------------------------------------------
(* The hourly refresh (app.py).  write_hourly_publisher_payouts is the     *)
(* writer run_hourly_report calls; it follows the reconciliation rules of  *)
(* the hourly sheet: skip when the date is finalized, replace the LIVE     *)
(* rows of the date, append the rows of the new hour.                      *)

WindowOpens == 9       \* current_hour < 9
WindowCloses == 21     \* current_hour > 21
FirstProcessed == 9    \* previous_hour_num < 9
LastProcessed == 21    \* previous_hour_num >= 21
CumulativeFrom == 9    \* range(9, current_hour_num + 1)

\* strftime("%H")
HourStr(h) ==
    CASE h = 8 -> "08" [] h = 9 -> "09" [] h = 10 -> "10" [] h = 11 -> "11" [] h = 12 -> "12"
      [] h = 13 -> "13" [] h = 14 -> "14" [] h = 15 -> "15" [] h = 16 -> "16" [] h = 17 -> "17"
      [] h = 18 -> "18" [] h = 19 -> "19" [] h = 20 -> "20" [] h = 21 -> "21" [] h = 22 -> "22"
      [] h = 23 -> "23" [] OTHER -> "0" \o IntStr(h)

\* an identifier that names the day alone
DayId(date, h) == date

\* strftime("%Y-%m-%d %H:00")
HourId(date, h) == date \o " " \o HourStr(h) \o ":00"

\* the hourly sheet: the daily columns of the Target variant and a trailing
\* Hour column; Status is column H as finalize_previous_day_data reads it
HourlyHeader ==
    <<"Date", "Publisher", "Campaign", "Target", "Payout", "Completed Calls", "Paid Calls",
      "Status", "Hour">>

\* key = (publisher, campaign, target)
Key(pub) == <<Get(pub, "Publisher", ""), Get(pub, "Campaign", ""), Get(pub, "Target", "")>>

\* cumulative_dict[key] = {...}
NewTotal(pub) ==
    [Publisher |-> Get(pub, "Publisher", ""), Campaign |-> Get(pub, "Campaign", ""),
     Target |-> Get(pub, "Target", ""), Payout |-> Get(pub, "Payout", 0),
     CompletedCalls |-> Get(pub, "CompletedCalls", 0), PaidCalls |-> Get(pub, "PaidCalls", 0)]

\* a merge that keeps the last value seen for a key
AddToOverwriting(acc, pub) ==
    LET S == {i \in 1..Len(acc) : Key(acc[i]) = Key(pub)}
    IN  IF S # {} THEN [acc EXCEPT ![MinOf(S)] = NewTotal(pub)] ELSE Append(acc, NewTotal(pub))

\* if key in cumulative_dict: += ... else: a new entry, in insertion order
AddTo(acc, pub) ==
    LET S == {i \in 1..Len(acc) : Key(acc[i]) = Key(pub)}
    IN  IF S # {}
        THEN [acc EXCEPT ![MinOf(S)] =
                [@ EXCEPT !.Payout = @ + Get(pub, "Payout", 0),
                          !.CompletedCalls = @ + Get(pub, "CompletedCalls", 0),
                          !.PaidCalls = @ + Get(pub, "PaidCalls", 0)]]
        ELSE Append(acc, NewTotal(pub))

RECURSIVE AddAll(_, _)
\* for pub in hour_publishers
AddAll(acc, pubs) == IF pubs = <<>> THEN acc ELSE AddAll(AddTo(acc, Head(pubs)), Tail(pubs))

RECURSIVE SumHours(_, _, _, _, _)
\* for hour_num in range(9, current_hour_num + 1): try: fetch, add
\* except: continue
SumHours(st, hour_num, current_hour_num, data, acc) ==
    IF hour_num > current_hour_num THEN [st EXCEPT !.ret = acc]
    ELSE Let(get_publisher_payouts(st, hour_num, data[hour_num]), LAMBDA s1 :
            SumHours([s1 EXCEPT !.exc = FALSE], hour_num + 1, current_hour_num, data,
                     IF s1.exc THEN acc ELSE AddAll(acc, s1.ret)))

\* pub_data["Date"] = date_str; pub_data["Status"] = status
Stamped(total, date_str, status) ==
    [Publisher |-> total.Publisher, Campaign |-> total.Campaign, Target |-> total.Target,
     Payout |-> total.Payout, CompletedCalls |-> total.CompletedCalls,
     PaidCalls |-> total.PaidCalls, Date |-> date_str, Status |-> status]

\* a total that holds the latest hour alone
LatestHourOnly(st, date_str, current_hour_num, status, data) ==
    Let(SumHours(st, current_hour_num, current_hour_num, data, <<>>), LAMBDA s1 :
        [s1 EXCEPT !.ret = [i \in 1..Len(s1.ret) |-> Stamped(s1.ret[i], date_str, status)]])

get_cumulative_hourly_data(st, date_str, current_hour_num, status, data) ==
    Let(SumHours(st, CumulativeFrom, current_hour_num, data, <<>>), LAMBDA s1 :
        [s1 EXCEPT !.ret = [i \in 1..Len(s1.ret) |-> Stamped(s1.ret[i], date_str, status)]])

\* one row of the hourly sheet
HourlyRowOf(pub, hour_identifier) ==
    <<Get(pub, "Date", ""), Get(pub, "Publisher", ""), Get(pub, "Campaign", ""),
      Get(pub, "Target", ""), IntStr(Get(pub, "Payout", 0)), IntStr(Get(pub, "CompletedCalls", 0)),
      IntStr(Get(pub, "PaidCalls", 0)), Get(pub, "Status", "LIVE"), hour_identifier>>

HourlyRows(publishers, hour_identifier) ==
    [i \in 1..Len(publishers) |-> HourlyRowOf(publishers[i], hour_identifier)]

\* the sheet rows of a date with the status, in the hourly layout
HourlyRowsOf(all, date, status) ==
    {i \in 2..Len(all) :
        /\ Len(all[i]) >= Len(HourlyHeader) - 1
        /\ Strip(all[i][1]) = date
        /\ Upper(Strip(all[i][Len(HourlyHeader) - 1])) = status}

write_hourly_publisher_payouts(st, publishers, hour_identifier) ==
    IF publishers = <<>> THEN st
    ELSE OnOk(_set_header_row(st, HourlyHeader), LAMBDA s1 :
            OnOk(get_all_values(s1), LAMBDA s2 :
                IF HourlyRowsOf(s2.ret, publishers[1].Date, "FINAL") # {} THEN s2
                ELSE OnOk(DeleteDescending(s2, HourlyRowsOf(s2.ret, publishers[1].Date, "LIVE"), FALSE),
                          LAMBDA s3 :
                            update_rows(s3,
                                Len(s2.ret) - Cardinality(HourlyRowsOf(s2.ret, publishers[1].Date, "LIVE")) + 1,
                                HourlyRows(publishers, hour_identifier)))))

\* the cumulative records become the run's output
Handed(st) == [st EXCEPT !.out = st.ret]

\* a refresh that checks the hour of the run and not the hour it processes
PreviousHourUnchecked(st, day, current_hour, data) ==
    IF current_hour < WindowOpens \/ current_hour > WindowCloses THEN Status(st, "skipped")
    ELSE Let(get_publisher_payouts(st, current_hour - 1, data[current_hour - 1]), LAMBDA s1 :
            IF s1.exc THEN Status(s1, "logged")
            ELSE IF s1.ret = <<>> THEN Status(s1, "none")
            ELSE Let(Handed(get_cumulative_hourly_data(s1, DateStr(day), current_hour - 1, "LIVE", data)),
                     LAMBDA s2 :
                        Ended(write_hourly_publisher_payouts(s2, s2.ret, HourId(DateStr(day), current_hour - 1)),
                              "done", "logged")))

run_hourly_report(st, day, current_hour, data) ==
    IF current_hour < WindowOpens \/ current_hour > WindowCloses THEN Status(st, "skipped")
    ELSE IF current_hour - 1 < FirstProcessed \/ current_hour - 1 >= LastProcessed
    THEN Status(st, "skipped")
    ELSE Let(get_publisher_payouts(st, current_hour - 1, data[current_hour - 1]), LAMBDA s1 :
            IF s1.exc THEN Status(s1, "logged")
            ELSE IF s1.ret = <<>> THEN Status(s1, "none")
            ELSE Let(Handed(get_cumulative_hourly_data(s1, DateStr(day), current_hour - 1, "LIVE", data)),
                     LAMBDA s2 :
                        Ended(write_hourly_publisher_payouts(s2, s2.ret, HourId(DateStr(day), current_hour - 1)),
                              "done", "logged")))

\* the manual routes around the scheduled jobs: await job(); "success",
\* except Exception: "error"
Tested(st) == IF st.exc THEN Status(st, "error") ELSE Status(st, "success")

test_hourly_report(st, day, current_hour, data) == Tested(run_hourly_report(st, day, current_hour, data))

test_daily_report(st, day, datas) == Tested(run_end_of_day_report(st, day, datas))

----------------------------------------------------------------------------
(* Inputs and initial sheets *)

Dates == {DateStr(1), DateStr(2)}
PublisherNames == {"p1", "p2"}

\* a row of the daily sheet in the column order Date .. Status
DailyRow(d, p, s) == <<d, p, "c1", "1", "", s>>

DailyRowTypes ==
    {DailyRow(d, p, s) : d \in Dates, p \in PublisherNames, s \in {"LIVE", "FINAL"}}
        \cup {DailyRow(DateStr(1), "p1", "final ")}

\* header rows a sheet may start with: the daily header, none, other letter
\* case, and the header of a sheet written before the Status column existed
HeaderShapes ==
    {DailyHeader, <<>>, <<"date", "Publisher", "Campaign", "Payout", "", "STATUS">>,
     <<"Date", "Publisher", "Campaign", "Payout">>}

SeqsUpTo(S, n) == UNION {[1..k -> S] : k \in 0..n}

\* the daily worksheet also receives the webhook's schemaless rows
\* (append_payload), so it may start with any header and any rows
InitDailySheets == {Sheet(h, rs) : h \in HeaderShapes, rs \in SeqsUpTo(DailyRowTypes, MaxInitRows)}

EmptySheet == Sheet(<<>>, <<>>)

\* the hour identifier of the 9:00 refresh of a date
Bucket(d) ==
    CASE d = "2026-01-04" -> "2026-01-04 09:00"
      [] d = "2026-01-05" -> "2026-01-05 09:00"
      [] OTHER -> "2026-01-06 09:00"

\* a row of the hourly sheet: the cumulative payout a of the bucket of date d
HourlyRow(d, a, s) == <<d, "p1", "c1", "t1", a, "1", "1", s, Bucket(d)>>

HourlyRowTypes == {HourlyRow(d, a, s) : d \in Dates, a \in {"1", "2"}, s \in {"LIVE", "FINAL"}}

InitHourlySheets == {Sheet(HourlyHeader, rs) : rs \in SeqsUpTo(HourlyRowTypes, MaxRows)}

\* records as a caller of the client passes them
DatedRecord(d, p) == [Date |-> d, Publisher |-> p, Campaign |-> "c1", Payout |-> 1]
\* records as get_publisher_payouts returns them
FetchedRecord(p) == [Publisher |-> p, Payout |-> 1]

KeyOrder == <<<<DateStr(1), "p1">>, <<DateStr(1), "p2">>, <<DateStr(2), "p1">>, <<DateStr(2), "p2">>>>

RECURSIVE Ascending(_)
Ascending(S) == IF S = {} THEN <<>> ELSE <<MinOf(S)>> \o Ascending(S \ {MinOf(S)})

\* record lists with one record per (date, publisher) key
DatedLists ==
    {[i \in 1..Cardinality(S) |-> DatedRecord(KeyOrder[Ascending(S)[i]][1], KeyOrder[Ascending(S)[i]][2])] :
        S \in {T \in SUBSET (1..4) : T # {} /\ Cardinality(T) <= MaxRecs}}

\* record lists of one date, or without a Date field, one record per publisher
DayLists ==
    {[i \in 1..Cardinality(S) |->
        IF d = "" THEN FetchedRecord(KeyOrder[Ascending(S)[i]][2])
        ELSE DatedRecord(d, KeyOrder[Ascending(S)[i]][2])] :
        S \in {T \in SUBSET (1..2) : T # {} /\ Cardinality(T) <= MaxRecs}, d \in Dates \cup {""}}

Item(p, a) == [publisherName |-> p, payoutAmount |-> a]

\* decoded response bodies of the reporting API
Responses ==
    {[groups |-> <<>>], [groups |-> <<Item("p1", 1)>>],
     [report |-> [records |-> <<Item("p1", 1)>>]]}

\* the fetch results of the hours of a day: none, one publisher, one
\* publisher in two result rows, another publisher, a publisher and the
\* rollup row of the totals (generateRollups), the nested shape
HourBodies ==
    {[groups |-> <<>>], [groups |-> <<Item("p1", 1)>>],
     [groups |-> <<Item("p1", 1), Item("p1", 2)>>], [groups |-> <<Item("p2", 1)>>],
     [groups |-> <<Item("p1", 1), [payoutAmount |-> 1]>>],
     [report |-> [records |-> <<Item("p1", 1)>>]]}

\* what the reporting API holds for the hours of the local day
Feeds == [CumulativeFrom..(MaxHour - 1) -> HourBodies]

\* a day without activity
QuietDay == [h \in CumulativeFrom..(MaxHour - 1) |-> [groups |-> <<>>]]

StartHour == WindowOpens

NoFail == {{}}

\* at most one call of a run raises
FailSets == {{}} \cup {{k} : k \in 1..MaxFailAt}

----------------------------------------------------------------------------
(* Actions.  A handler runs as one step from the idle engine; `last`      *)
(* records the run: its name, arguments, the sheet before it, the store   *)
(* calls it issued and its result.  Returned forgets the record; `prev`   *)
(* keeps the name and the records of a scheduled backfill that has just   *)
(* returned.                                                              *)

Did(op, on, pre, st, dates, recs, clear) ==
    [op |-> op, on |-> on, pre |-> pre, dates |-> dates, recs |-> recs, clear |-> clear,
     log |-> st.log, exc |-> st.exc, count |-> st.count, status |-> st.status]

Idle == [op |-> "idle", on |-> "", pre |-> EmptySheet, dates |-> {}, recs |-> <<>>,
         clear |-> FALSE, log |-> <<>>, exc |-> FALSE, count |-> 0, status |-> ""]

NoRun == [op |-> "none", dates |-> {}, recs |-> <<>>, status |-> ""]

\* the event loop of the process with no task created
NoTasks == [ready |-> {}, parked |-> {}, running |-> "", frame |-> <<>>, calls |-> <<>>]

\* the writes of the client that replace the rows of a date
ReplacingWrites == {"write_today_hourly_payouts", "write_publisher_payouts"}

Remembered(run) ==
    IF run.op = "run_end_of_day_report"
    THEN [op |-> run.op, dates |-> run.dates, recs |-> run.recs, status |-> run.status]
    ELSE IF run.op \in ReplacingWrites /\ \E i \in 1..Len(run.log) : ~run.log[i][3]
    THEN [op |-> run.op, dates |-> run.dates, recs |-> run.recs, status |-> run.status,
          pre |-> run.pre, clear |-> run.clear]
    ELSE NoRun

DailyStep(st, op, dates, recs, clear) ==
    /\ last = Idle
    /\ Len(st.rows) <= MaxRows
    /\ daily' = SheetOf(st)
    /\ last' = Did(op, "daily", daily, st, dates, recs, clear)
    /\ UNCHANGED <<hourly, today, prev, hour, feed, loop>>

HourlyStep(st, op, dates) ==
    /\ last = Idle
    /\ Len(st.rows) <= MaxRows
    /\ hourly' = SheetOf(st)
    /\ last' = Did(op, "hourly", hourly, st, dates, st.out, FALSE)
    /\ UNCHANGED <<daily, today, prev, hour, feed, loop>>

WriteTodayHourlyPayouts(F) ==
    \E recs \in DayLists, d \in Dates :
        DailyStep(write_today_hourly_payouts(Run(daily, F), recs, d),
                  "write_today_hourly_payouts", {d}, recs, FALSE)

WritePublisherPayouts(F) ==
    \E recs \in DatedLists, clear \in BOOLEAN :
        DailyStep(write_publisher_payouts(Run(daily, F), recs, clear),
                  "write_publisher_payouts", DatesToProcess(recs), recs, clear)

\* the count a finalize call returns, kept as the run's count
Counted(st) == [st EXCEPT !.count = st.ret]

FinalizeLiveDataForDates(F) ==
    \E ds \in SUBSET Dates :
        DailyStep(Counted(finalize_live_data_for_dates(Run(daily, F), ds)),
                  "finalize_live_data_for_dates", ds, <<>>, FALSE)

FinalizeTodayData(F) ==
    \E d \in Dates :
        DailyStep(Counted(finalize_today_data(Run(daily, F), d)),
                  "finalize_today_data", {d}, <<>>, FALSE)

SyncPublisherPayouts(F) ==
    \E data \in Responses, clear \in BOOLEAN :
        DailyStep(sync_publisher_payouts(Run(daily, F), today, data, clear),
                  "sync_publisher_payouts", {DateStr(today - 1)}, Publishers(data), clear)

SyncDate(F) ==
    \E date \in Dates \cup {"01/05/2026", "2026-1-5"}, data \in Responses, clear \in BOOLEAN :
        DailyStep(sync_date(Run(daily, F), date, data, clear),
                  "sync_date", {date}, Publishers(data), clear)

\* all_publishers of run_end_of_day_report when no fetch raises
Fetched(day, datas) ==
    IF Weekday(day) = 0
    THEN Publishers(datas[1]) \o Publishers(datas[2]) \o Publishers(datas[3])
    ELSE Publishers(datas[1])

RunEndOfDayReport(F) ==
    \E d1 \in Responses, d2 \in Responses, d3 \in Responses :
        /\ Weekday(today) # 0 => d2 = d1 /\ d3 = d1
        /\ DailyStep(run_end_of_day_report(Run(daily, F), today, <<d1, d2, d3>>),
                     "run_end_of_day_report",
                     {DateStr(BackfillDays(today)[i]) : i \in 1..Len(BackfillDays(today))},
                     Fetched(today, <<d1, d2, d3>>), FALSE)

FinalizePreviousDayData(F) ==
    HourlyStep(finalize_previous_day_data(Run(hourly, F), today),
               "finalize_previous_day_data", {DateStr(today - 1)})

CleanupHourlyDuplicates(F) ==
    HourlyStep(cleanup_hourly_duplicates(Run(hourly, F)), "cleanup_hourly_duplicates", {})

\* the client of the hourly worksheet is a GoogleSheetsClient as well
HourlyFinalizeLiveDataForDates(F) ==
    \E ds \in SUBSET Dates :
        HourlyStep(Counted(finalize_live_data_for_dates(Run(hourly, F), ds)),
                   "finalize_live_data_for_dates", ds)

HourlyFinalizeTodayData(F) ==
    \E d \in Dates :
        HourlyStep(Counted(finalize_today_data(Run(hourly, F), d)), "finalize_today_data", {d})

RunHourlyReport(F) ==
    HourlyStep(run_hourly_report(Run(hourly, F), today, hour, feed),
               "run_hourly_report", {DateStr(today)})

TestHourlyReport(F) ==
    HourlyStep(test_hourly_report(Run(hourly, F), today, hour, feed),
               "test_hourly_report", {DateStr(today)})

TestDailyReport(F) ==
    \E d1 \in Responses, d2 \in Responses, d3 \in Responses :
        /\ Weekday(today) # 0 => d2 = d1 /\ d3 = d1
        /\ DailyStep(test_daily_report(Run(daily, F), today, <<d1, d2, d3>>),
                     "test_daily_report",
                     {DateStr(BackfillDays(today)[i]) : i \in 1..Len(BackfillDays(today))},
                     Fetched(today, <<d1, d2, d3>>), FALSE)

\* the handler has returned; the engine is idle again
Returned ==
    /\ last # Idle
    /\ last' = Idle
    /\ prev' = Remembered(last)
    /\ UNCHANGED <<daily, hourly, today, hour, feed, loop>>

\* midnight, between two runs
Tick ==
    /\ last = Idle
    /\ today < MaxDay
    /\ today' = today + 1
    /\ UNCHANGED <<daily, hourly, last, prev, hour, feed, loop>>

\* the clock starts on the day before the last day
FirstDay == MaxDay - 1

\* the next hour of the local day
HourTick ==
    /\ last = Idle
    /\ hour < MaxHour
    /\ hour' = hour + 1
    /\ UNCHANGED <<daily, hourly, today, last, prev, feed, loop>>

\* the window of the next local day opens
NextDay ==
    /\ last = Idle
    /\ today < MaxDay
    /\ today' = today + 1
    /\ hour' = StartHour
    /\ feed' \in Feeds
    /\ UNCHANGED <<daily, hourly, last, prev, loop>>

Init ==
    /\ daily \in InitDailySheets
    /\ hourly = EmptySheet
    /\ today = FirstDay
    /\ last = Idle
    /\ prev = NoRun
    /\ hour = StartHour
    /\ feed = QuietDay
    /\ loop = NoTasks

\* the daily sheet under the backfill and sync operations
Next ==
    \E F \in NoFail :
        \/ WritePublisherPayouts(F)
        \/ SyncPublisherPayouts(F)
        \/ SyncDate(F)
        \/ RunEndOfDayReport(F)
        \/ Returned
        \/ Tick

Spec == Init /\ [][Next]_vars

\* a sheet under the client's LIVE refresh and finalize operations
NextLive ==
    \E F \in NoFail :
        \/ WriteTodayHourlyPayouts(F)
        \/ FinalizeLiveDataForDates(F)
        \/ FinalizeTodayData(F)
        \/ Returned
        \/ Tick

SpecLive == Init /\ [][NextLive]_vars

InitHourly ==
    /\ daily = EmptySheet
    /\ hourly \in InitHourlySheets
    /\ today = FirstDay
    /\ last = Idle
    /\ prev = NoRun
    /\ hour = StartHour
    /\ feed = QuietDay
    /\ loop = NoTasks

\* the hourly sheet under finalize and cleanup
NextHourly ==
    \E F \in NoFail :
        \/ FinalizePreviousDayData(F)
        \/ CleanupHourlyDuplicates(F)
        \/ HourlyFinalizeLiveDataForDates(F)
        \/ HourlyFinalizeTodayData(F)
        \/ Returned
        \/ Tick

SpecHourly == InitHourly /\ [][NextHourly]_vars

\* hourly sheets before the first refresh of the day: none, or the rows of
\* the day before
RefreshSeeds ==
    {EmptySheet, Sheet(HourlyHeader, <<HourlyRow(DateStr(FirstDay - 1), "1", "LIVE")>>),
     Sheet(HourlyHeader, <<HourlyRow(DateStr(FirstDay - 1), "1", "FINAL")>>)}

InitRefresh ==
    /\ daily = EmptySheet
    /\ hourly \in RefreshSeeds
    /\ today = FirstDay
    /\ last = Idle
    /\ prev = NoRun
    /\ hour = StartHour
    /\ feed \in Feeds
    /\ loop = NoTasks

\* the hourly sheet under the hourly refresh of successive hours and days
NextRefresh ==
    \E F \in NoFail :
        \/ RunHourlyReport(F)
        \/ FinalizePreviousDayData(F)
        \/ HourTick
        \/ NextDay
        \/ Returned

SpecRefresh == InitRefresh /\ [][NextRefresh]_vars

\* an hour's fetch with one publisher, every hour
BusyDay == [h \in CumulativeFrom..(MaxHour - 1) |-> [groups |-> <<Item("p1", 1)>>]]

FaultFeeds == {QuietDay, BusyDay}

\* sheets with two LIVE rows of the day before
FaultDailySheets ==
    {EmptySheet,
     Sheet(DailyHeader, <<DailyRow(DateStr(FirstDay - 1), "p1", "LIVE"),
                          DailyRow(DateStr(FirstDay - 1), "p2", "LIVE")>>)}

FaultHourlySheets ==
    {EmptySheet,
     Sheet(HourlyHeader, <<HourlyRow(DateStr(FirstDay - 1), "1", "LIVE"),
                           HourlyRow(DateStr(FirstDay - 1), "2", "LIVE")>>)}

InitJobs ==
    /\ daily = EmptySheet
    /\ hourly \in FaultHourlySheets
    /\ today = FirstDay
    /\ last = Idle
    /\ prev = NoRun
    /\ hour = StartHour
    /\ feed \in FaultFeeds
    /\ loop = NoTasks

\* the scheduled jobs and their test routes when a fetch or a store call of
\* the run may raise
NextJobs ==
    \E F \in FailSets :
        \/ RunEndOfDayReport(F)
        \/ TestDailyReport(F)
        \/ RunHourlyReport(F)
        \/ TestHourlyReport(F)
        \/ FinalizePreviousDayData(F)
        \/ HourTick
        \/ Returned

SpecJobs == InitJobs /\ [][NextJobs]_vars

InitTriggers ==
    /\ daily \in FaultDailySheets
    /\ hourly \in FaultHourlySheets
    /\ today = FirstDay
    /\ last = Idle
    /\ prev = NoRun
    /\ hour = StartHour
    /\ feed \in FaultFeeds
    /\ loop = NoTasks

\* the runs that fetch and then write, no call raising
NextTriggers ==
    \E F \in NoFail :
        \/ SyncPublisherPayouts(F)
        \/ SyncDate(F)
        \/ RunEndOfDayReport(F)
        \/ RunHourlyReport(F)
        \/ HourTick
        \/ Returned

SpecTriggers == InitTriggers /\ [][NextTriggers]_vars

InitStore ==
    /\ daily \in FaultDailySheets
    /\ hourly = EmptySheet
    /\ today = FirstDay
    /\ last = Idle
    /\ prev = NoRun
    /\ hour = StartHour
    /\ feed = QuietDay
    /\ loop = NoTasks

\* the sync routes and the client's finalize passes when a fetch or a store
\* call of the run may raise
NextStore ==
    \E F \in FailSets :
        \/ SyncPublisherPayouts(F)
        \/ SyncDate(F)
        \/ FinalizeLiveDataForDates(F)
        \/ FinalizeTodayData(F)
        \/ Returned

SpecStore == InitStore /\ [][NextStore]_vars

\* the LIVE refresh of the local date
RefreshToday(F) ==
    \E recs \in {<<FetchedRecord("p1")>>,
                 <<DatedRecord(DateStr(today), "p1"), DatedRecord(DateStr(today), "p2")>>} :
        DailyStep(write_today_hourly_payouts(Run(daily, F), recs, DateStr(today)),
                  "write_today_hourly_payouts", {DateStr(today)}, recs, FALSE)

\* one or two records of one date, for the day before the first day and for
\* the first day
BackfillLists ==
    UNION {{<<DatedRecord(d, "p1")>>, <<DatedRecord(d, "p1"), DatedRecord(d, "p2")>>} :
              d \in {DateStr(FirstDay - 1), DateStr(FirstDay)}}

\* the backfill of one date
BackfillDate(F) ==
    \E recs \in BackfillLists :
        DailyStep(write_publisher_payouts(Run(daily, F), recs, FALSE),
                  "write_publisher_payouts", DatesToProcess(recs), recs, FALSE)

\* daily sheets that hold the rows of one date, LIVE or FINAL
RerunSeeds ==
    {EmptySheet} \cup
    {Sheet(DailyHeader, rs) :
        rs \in {<<DailyRow(DateStr(FirstDay), "p1", "FINAL")>>,
                <<DailyRow(DateStr(FirstDay), "p1", "LIVE"), DailyRow(DateStr(FirstDay), "p2", "LIVE")>>,
                <<DailyRow(DateStr(FirstDay - 1), "p1", "LIVE"), DailyRow(DateStr(FirstDay), "p1", "LIVE")>>}}

InitRerun ==
    /\ daily \in RerunSeeds
    /\ hourly = EmptySheet
    /\ today = FirstDay
    /\ last = Idle
    /\ prev = NoRun
    /\ hour = StartHour
    /\ feed = QuietDay
    /\ loop = NoTasks

\* refreshes and backfills of a date, run again after a run in which a store
\* call raised
NextRerun ==
    \E F \in FailSets :
        \/ RefreshToday(F)
        \/ BackfillDate(F)
        \/ Returned

SpecRerun == InitRerun /\ [][NextRerun]_vars

InitWrites ==
    /\ daily = EmptySheet
    /\ hourly = EmptySheet
    /\ today = FirstDay
    /\ last = Idle
    /\ prev = NoRun
    /\ hour = StartHour
    /\ feed = QuietDay
    /\ loop = NoTasks

\* the daily sheet, empty at first, under the writers of the client, the
\* finalize pass and the sync of a date
NextWrites ==
    \E F \in NoFail :
        \/ WritePublisherPayouts(F)
        \/ WriteTodayHourlyPayouts(F)
        \/ FinalizeLiveDataForDates(F)
        \/ SyncDate(F)
        \/ Returned

SpecWrites == InitWrites /\ [][NextWrites]_vars

----------------------------------------------------------------------------
(* Vocabulary of the properties.  Rows are read in the column order the   *)
(* writers produce: the date in column A; the status in column F of the   *)
(* daily sheet and column H of the hourly sheet; the hour in column I.    *)

DailyStatusCol == StatusIdx
HourlyStatusCol == FinalizeStatusCol
HourCol == Len(HourlyHeader)

StatusColOf(on) == IF on = "hourly" THEN HourlyStatusCol ELSE DailyStatusCol

\* the sheet the run recorded in `last` has worked on, as it is now
Post == IF last.on = "hourly" THEN hourly ELSE daily

RowDate(r) == IF Len(r) >= 1 THEN Strip(r[1]) ELSE ""

HasStatusOn(r, on, s) == Len(r) >= StatusColOf(on) /\ Upper(Strip(r[StatusColOf(on)])) = s

IsFinalDaily(r) == HasStatusOn(r, "daily", "FINAL")
IsLiveDaily(r) == HasStatusOn(r, "daily", "LIVE")
IsFinalHourly(r) == HasStatusOn(r, "hourly", "FINAL")
IsLiveHourly(r) == HasStatusOn(r, "hourly", "LIVE")

Count(rs, r) == Cardinality({i \in 1..Len(rs) : rs[i] = r})

\* the positions of the log entries of a store call, and the sheet rows named
Calls(log, name) == {i \in 1..Len(log) : log[i][1] = name}
Positions(log, name) == {log[i][2] : i \in Calls(log, name)}

FinalizeOps == {"finalize_previous_day_data", "finalize_live_data_for_dates", "finalize_today_data"}

----------------------------------------------------------------------------
(* C1  FINAL is a one-way door for LIVE writes: when the sheet holds a     *)
(* FINAL row for date D, write_today_hourly_payouts(records, D) leaves the *)
(* data rows of the sheet as they were, for every header shape and every   *)
(* non-empty record list.                                                  *)

C1_FinalIsOneWayDoor ==
    (/\ last.op = "write_today_hourly_payouts"
     /\ last.recs # <<>>
     /\ \E i \in 1..Len(last.pre.rows) :
            IsFinalDaily(last.pre.rows[i]) /\ RowDate(last.pre.rows[i]) \in last.dates)
        => daily.rows = last.pre.rows

\* the refresh of a finalized date on a sheet whose header names the columns
C1_RefreshOfFinalizedDate ==
    /\ last.op = "write_today_hourly_payouts"
    /\ last.pre.hdr = DailyHeader
    /\ \E i \in 1..Len(last.pre.rows) :
            IsFinalDaily(last.pre.rows[i]) /\ RowDate(last.pre.rows[i]) \in last.dates
    /\ daily.rows = last.pre.rows

----------------------------------------------------------------------------
(* C2  FINAL rows are permanent: a trigger-surface operation that is not a *)
(* historical backfill of date D leaves every FINAL row of date D in the   *)
(* sheet: none is deleted, cleared or overwritten.                         *)

TriggerOps ==
    {"sync_publisher_payouts", "sync_date", "run_end_of_day_report",
     "finalize_previous_day_data", "cleanup_hourly_duplicates"}

C2_FinalRowsPermanent ==
    last.op \in TriggerOps =>
        \A i \in 1..Len(last.pre.rows) :
            (/\ HasStatusOn(last.pre.rows[i], last.on, "FINAL")
             /\ RowDate(last.pre.rows[i]) \notin last.dates)
                => Count(Post.rows, last.pre.rows[i]) >= Count(last.pre.rows, last.pre.rows[i])

----------------------------------------------------------------------------
(* C3  LIVE refresh replaces, it does not append: after                    *)
(* write_today_hourly_payouts(records, D) on a sheet with no FINAL row for *)
(* D, the LIVE rows of D are the rows built from the records, one per      *)
(* record, and every other row is unchanged.                               *)

IsLiveOf(r, D) == IsLiveDaily(r) /\ RowDate(r) = D

\* the records are records of the date D
RecordsOf(recs, D) == \A i \in 1..Len(recs) : Get(recs[i], "Date", D) = D

C3_RefreshReplaces ==
    \A D \in last.dates :
        (/\ last.op = "write_today_hourly_payouts"
         /\ ~last.exc
         /\ RecordsOf(last.recs, D)
         /\ ~\E i \in 1..Len(last.pre.rows) :
                IsFinalDaily(last.pre.rows[i]) /\ RowDate(last.pre.rows[i]) = D)
            => /\ Len(SelectSeq(daily.rows, LAMBDA r : IsLiveOf(r, D))) = Len(last.recs)
               /\ \A i \in 1..Len(last.recs) :
                     \E j \in 1..Len(daily.rows) :
                        /\ IsLiveOf(daily.rows[j], D)
                        /\ daily.rows[j][2] = Get(last.recs[i], "Publisher", "")
               /\ SelectSeq(daily.rows, LAMBDA r : ~IsLiveOf(r, D))
                    = SelectSeq(last.pre.rows, LAMBDA r : ~IsLiveOf(r, D))

----------------------------------------------------------------------------
(* C4  Idempotent historical backfill: when run_end_of_day_report writes   *)
(* the same fetched record set for date D a second time, the daily sheet   *)
(* holds as many rows as after the first write and one FINAL row per       *)
(* publisher key of the records.                                           *)

SecondBackfill ==
    /\ last.op = "run_end_of_day_report"
    /\ last.status = "done"
    /\ prev.op = "run_end_of_day_report"
    /\ prev.status = "done"
    /\ prev.recs = last.recs
    /\ prev.dates = last.dates
    /\ Cardinality(last.dates) = 1

C4_IdempotentBackfill ==
    SecondBackfill =>
        /\ Len(daily.rows) = Len(last.pre.rows)
        /\ \A i \in 1..Len(last.recs) :
              Cardinality({j \in 1..Len(daily.rows) :
                              /\ IsFinalDaily(daily.rows[j])
                              /\ daily.rows[j][2] = last.recs[i]["Publisher"]
                              /\ RowDate(daily.rows[j]) \in last.dates \cup {""}}) = 1

----------------------------------------------------------------------------
(* C5  Historical backfill ordering: write_publisher_payouts with          *)
(* clear_existing=False on a sheet that has data rows patches the LIVE     *)
(* rows of the dates of the records to FINAL, then deletes every row of    *)
(* those dates, then inserts the fresh rows; no row is inserted before the *)
(* last deletion and every inserted row is FINAL.                          *)

ReplaceRun ==
    /\ last.op = "write_publisher_payouts"
    /\ ~last.clear
    /\ ~last.exc
    /\ last.pre.rows # <<>>

\* the sheet rows (2-based) of the run's dates before the run
RowsOfRun == {i + 1 : i \in {k \in 1..Len(last.pre.rows) : RowDate(last.pre.rows[k]) \in last.dates}}
LiveRowsOfRun == {i + 1 : i \in {k \in 1..Len(last.pre.rows) :
                    RowDate(last.pre.rows[k]) \in last.dates /\ IsLiveDaily(last.pre.rows[k])}}

C5_BackfillOrdering ==
    ReplaceRun =>
        /\ Positions(last.log, "update_cell") = LiveRowsOfRun
        /\ Positions(last.log, "delete_rows") = RowsOfRun
        /\ Cardinality(Calls(last.log, "delete_rows")) = Cardinality(RowsOfRun)
        /\ Calls(last.log, "update_rows") = {Len(last.log)}
        /\ Calls(last.log, "append_row") = {}
        /\ \A p \in Calls(last.log, "update_cell"), d \in Calls(last.log, "delete_rows") : p < d
        /\ \A d \in Calls(last.log, "delete_rows"), w \in Calls(last.log, "update_rows") : d < w
        /\ Len(daily.rows) = Len(last.pre.rows) - Cardinality(RowsOfRun) + Len(last.recs)
        /\ \A k \in 1..Len(last.recs) :
              /\ daily.rows[Len(daily.rows) - Len(last.recs) + k] = FinalRow(last.recs[k])
              /\ IsFinalDaily(daily.rows[Len(daily.rows) - Len(last.recs) + k])

\* a backfill that has patched a LIVE row, deleted rows and inserted rows
C5_PatchedDeletedInserted ==
    /\ ReplaceRun
    /\ Calls(last.log, "update_cell") # {}
    /\ Cardinality(Calls(last.log, "delete_rows")) >= 2
    /\ Calls(last.log, "update_rows") # {}

----------------------------------------------------------------------------
(* C6  Cleanup never touches FINAL: cleanup_hourly_duplicates leaves every *)
(* FINAL row in place with every cell unchanged and leaves one LIVE row    *)
(* per hour bucket that had LIVE rows.                                     *)

LiveOfBucket(rs, b) == {i \in 1..Len(rs) : IsLiveHourly(rs[i]) /\ rs[i][HourCol] = b}

C6_CleanupKeepsFinal ==
    last.op = "cleanup_hourly_duplicates" =>
        /\ SelectSeq(hourly.rows, IsFinalHourly) = SelectSeq(last.pre.rows, IsFinalHourly)
        /\ \A d \in Dates :
              LiveOfBucket(last.pre.rows, Bucket(d)) # {}
                  => Cardinality(LiveOfBucket(hourly.rows, Bucket(d))) = 1

----------------------------------------------------------------------------
(* C7  Cleanup example: on the data rows (9:00, LIVE), (9:00, LIVE),       *)
(* (9:00, FINAL) cleanup_hourly_duplicates leaves the FINAL row, removes   *)
(* both LIVE rows, and the result has 1 data row.                          *)

CleanupExample ==
    <<HourlyRow(DateStr(1), "1", "LIVE"), HourlyRow(DateStr(1), "2", "LIVE"),
      HourlyRow(DateStr(1), "2", "FINAL")>>

CleanupOfExample == last.op = "cleanup_hourly_duplicates" /\ last.pre.rows = CleanupExample

C7_ExampleLeavesOneRow ==
    CleanupOfExample => hourly.rows = <<CleanupExample[3]>>

(* C7, as the code has it: on the rows of the example cleanup removes the  *)
(* earlier LIVE row only; the later LIVE row and the FINAL row stay, and   *)
(* the result has 2 data rows.                                             *)

C7_ExampleLeavesTwoRows ==
    CleanupOfExample =>
        /\ hourly.rows = <<CleanupExample[2], CleanupExample[3]>>
        /\ last.count = 1
        /\ Positions(last.log, "delete_rows") = {2}

C7_ExampleCleaned == CleanupOfExample /\ Len(hourly.rows) = 2

----------------------------------------------------------------------------
(* C8  LIVE -> FINAL effect: after finalize_previous_day_data on local     *)
(* date T no row of the hourly sheet dated T-1 is LIVE; after              *)
(* finalize_live_data_for_dates(dates) has returned its count no row whose *)
(* date is in dates is LIVE.                                               *)

C8_NoLiveRowLeft ==
    (last.op \in FinalizeOps /\ ~last.exc) =>
        \A i \in 1..Len(Post.rows) :
            RowDate(Post.rows[i]) \in last.dates => ~HasStatusOn(Post.rows[i], last.on, "LIVE")

----------------------------------------------------------------------------
(* C9  Finalize frame: a finalize run issues no fetch, no delete and no    *)
(* row write; it changes only Status cells of rows that were LIVE for a    *)
(* finalized date, each to FINAL; the row count, the row order, every      *)
(* other cell and every FINAL row are unchanged, and no status goes from   *)
(* FINAL to LIVE.                                                          *)

C9_FinalizeFrame ==
    last.op \in FinalizeOps =>
        /\ \A i \in 1..Len(last.log) : last.log[i][1] \in {"get_all_values", "update_cell"}
        /\ Post.hdr = last.pre.hdr
        /\ Len(Post.rows) = Len(last.pre.rows)
        /\ \A i \in 1..Len(Post.rows) :
              \/ Post.rows[i] = last.pre.rows[i]
              \/ /\ HasStatusOn(last.pre.rows[i], last.on, "LIVE")
                 /\ RowDate(last.pre.rows[i]) \in last.dates
                 /\ Post.rows[i] = SetAt(last.pre.rows[i], StatusColOf(last.on), "FINAL")
        /\ \A i \in 1..Len(Post.rows) :
              HasStatusOn(last.pre.rows[i], last.on, "FINAL")
                  => HasStatusOn(Post.rows[i], last.on, "FINAL")

\* a finalize path has patched a row and left another row alone
C9_PatchedSomeRows ==
    /\ last.op \in {"finalize_previous_day_data", "finalize_live_data_for_dates"}
    /\ last.count >= 1
    /\ Calls(last.log, "update_cell") # {}
    /\ \E i \in 1..Len(Post.rows) : Post.rows[i] # last.pre.rows[i]
    /\ \E i \in 1..Len(Post.rows) : IsFinalHourly(last.pre.rows[i])

----------------------------------------------------------------------------
(* C10  Today-exclusion at finalize: no finalize path patches to FINAL a   *)
(* row whose date is the local date on which the finalize runs, whatever   *)
(* the row's status and whatever date the run targets.                     *)

\* the rows dated the local date are as they were before the run
TodayRowsUntouched ==
    /\ Len(Post.rows) = Len(last.pre.rows)
    /\ \A i \in 1..Len(Post.rows) :
          RowDate(last.pre.rows[i]) = DateStr(today) => Post.rows[i] = last.pre.rows[i]

----------------------------------------------------------------------------
(* C11: a backfill write (run_end_of_day_report, which hands its records   *)
(* to write_publisher_payouts without clearing) drops every record dated   *)
(* the local date of the run and so adds no FINAL row dated today.         *)

BackfillWrite ==
    /\ last.op \in {"run_end_of_day_report", "write_publisher_payouts"}
    /\ ~last.clear
    /\ ~last.exc

FinalToday(rs) == {i \in 1..Len(rs) : IsFinalDaily(rs[i]) /\ RowDate(rs[i]) = DateStr(today)}

----------------------------------------------------------------------------
(* C12: the records get_cumulative_hourly_data returns for date D and      *)
(* processed hour H are one record per (publisher, campaign, target) key   *)
(* seen in the fetches of hours 9..H, with Payout, Completed Calls and     *)
(* Paid Calls the sums over every fetched record of the key (a key seen    *)
(* twice in one fetch is summed), each carrying Date D and the status.     *)

RECURSIVE FetchedThrough(_, _)
\* every record fetched for the hours h..H of the day, in order
FetchedThrough(h, H) == IF h > H THEN <<>> ELSE Publishers(feed[h]) \o FetchedThrough(h + 1, H)

RECURSIVE SumField(_, _, _)
SumField(pubs, key, field) ==
    IF pubs = <<>> THEN 0
    ELSE (IF Key(Head(pubs)) = key THEN Get(Head(pubs), field, 0) ELSE 0)
         + SumField(Tail(pubs), key, field)

Refreshed == last.op = "run_hourly_report" /\ last.status = "done"

C12_CumulativeTotal ==
    Refreshed =>
        LET all == FetchedThrough(CumulativeFrom, hour - 1)
            recs == last.recs
        IN  /\ {Key(recs[i]) : i \in 1..Len(recs)} = {Key(all[j]) : j \in 1..Len(all)}
            /\ \A i, j \in 1..Len(recs) : Key(recs[i]) = Key(recs[j]) => i = j
            /\ \A i \in 1..Len(recs) :
                  /\ recs[i].Payout = SumField(all, Key(recs[i]), "Payout")
                  /\ recs[i].CompletedCalls = SumField(all, Key(recs[i]), "CompletedCalls")
                  /\ recs[i].PaidCalls = SumField(all, Key(recs[i]), "PaidCalls")
                  /\ recs[i].Date = DateStr(today)
                  /\ recs[i].Status = "LIVE"

\* a key fetched twice in one hour and once more in another hour
C12_SummedAcrossHours ==
    /\ Refreshed
    /\ \E i \in 1..Len(last.recs) : last.recs[i].Payout = 4
    /\ \E h \in CumulativeFrom..(hour - 1) : Len(Publishers(feed[h])) = 2

----------------------------------------------------------------------------
(* C13: on one day the cumulative row of a key never loses value from one  *)
(* hourly refresh to the next: after the refresh of hour H the LIVE row of *)
(* each key fetched in the hours 9..H holds the total through H, also when *)
(* the key has no activity in hour H itself, and a refresh never replaces  *)
(* the row of a key by a smaller total or removes it.                      *)

IntOf(s) == CHOOSE n \in 0..9 : IntStr(n) = s

RowKey(r) == <<r[2], r[3], r[4]>>

RowPayout(r) == IntOf(r[5])

\* the LIVE rows of the local day on the hourly sheet
LiveToday(rs) == {i \in 1..Len(rs) : IsLiveHourly(rs[i]) /\ RowDate(rs[i]) = DateStr(today)}

RowsHoldTotals ==
    Refreshed =>
        LET all == FetchedThrough(CumulativeFrom, hour - 1)
        IN  \A j \in 1..Len(all) :
                /\ Cardinality({i \in LiveToday(Post.rows) : RowKey(Post.rows[i]) = Key(all[j])}) = 1
                /\ \A i \in LiveToday(Post.rows) :
                      RowKey(Post.rows[i]) = Key(all[j])
                          => RowPayout(Post.rows[i]) = SumField(all, Key(all[j]), "Payout")

RefreshKeepsTotals ==
    (last'.op = "run_hourly_report" /\ today' = today) =>
        \A i \in LiveToday(hourly.rows) :
            \E j \in LiveToday(hourly'.rows) :
                /\ RowKey(hourly'.rows[j]) = RowKey(hourly.rows[i])
                /\ RowPayout(hourly'.rows[j]) >= RowPayout(hourly.rows[i])

C13_TotalNeverDecreases == []RowsHoldTotals /\ [][RefreshKeepsTotals]_vars

\* the refresh of hour 10 on a day when p1 was active in hour 9 only: the
\* row of p1 written by the refresh of hour 9 is there with its total
C13_QuietHourKeepsTotal ==
    /\ Refreshed
    /\ hour - 1 > CumulativeFrom
    /\ \A h \in CumulativeFrom..(hour - 1) :
          (\E j \in 1..Len(Publishers(feed[h])) : Publishers(feed[h])[j].Publisher = "p1")
              <=> h = CumulativeFrom
    /\ \E i \in LiveToday(last.pre.rows) : last.pre.rows[i][2] = "p1"
    /\ \E i \in LiveToday(Post.rows) : Post.rows[i][2] = "p1" /\ RowPayout(Post.rows[i]) > 0

----------------------------------------------------------------------------
(* C14: the list get_publisher_payouts returns for one fetch holds one     *)
(* record per grouping key, two result rows of the same key being merged   *)
(* into one record with the sum of their payouts.                          *)

\* the records the refresh fetched for the hour it processes
FetchedNow == Publishers(feed[hour - 1])

C14_FetchMergesDuplicates ==
    Refreshed => \A i, j \in 1..Len(FetchedNow) : Key(FetchedNow[i]) = Key(FetchedNow[j]) => i = j

\* the response of the processed hour has two result rows of one publisher
C14_TwoRowsOfOneKey ==
    /\ Refreshed
    /\ Len(feed[hour - 1].groups) = 2
    /\ Get(feed[hour - 1].groups[1], "publisherName", "") = "p1"
    /\ Get(feed[hour - 1].groups[2], "publisherName", "") = "p1"

----------------------------------------------------------------------------
(* C15: run_end_of_day_report, run_hourly_report and                       *)
(* finalize_previous_day_data return normally whichever fetch or store     *)
(* call of the run raises: no exception leaves a scheduled job.            *)

ScheduledOps == {"run_end_of_day_report", "run_hourly_report", "finalize_previous_day_data"}

\* a call of the run raised
SomeCallFailed == \E i \in 1..Len(last.log) : ~last.log[i][3]

\* a fetch of the run raised
SomeFetchFailed == \E i \in 1..Len(last.log) : last.log[i][1] = "fetch" /\ ~last.log[i][3]

C15_ScheduledNeverRaise ==
    last.op \in ScheduledOps => ~last.exc /\ last.status \in {"skipped", "none", "done", "logged"}

\* a scheduled job has returned from a run in which a store call raised
C15_ReturnedAfterFailure ==
    /\ last.op \in ScheduledOps
    /\ SomeCallFailed
    /\ ~SomeFetchFailed
    /\ ~last.exc

----------------------------------------------------------------------------
(* C16: an engine run in which a fetch fails issues no store write, delete *)
(* or patch: the sheet it works on is as it was before the run.  The       *)
(* fetches are the day fetches of the backfill, the fetch of the processed *)
(* hour and the per-hour fetches of the cumulative total.                  *)

WriteCalls == {"update_header", "update_rows", "update_cell", "delete_rows", "batch_clear", "append_row"}

NoStoreWrite == /\ \A i \in 1..Len(last.log) : last.log[i][1] \notin WriteCalls
                /\ Post = last.pre

EngineRuns == {"run_end_of_day_report", "run_hourly_report"}

C16_NoWriteAfterFailedFetch == (last.op \in EngineRuns /\ SomeFetchFailed) => NoStoreWrite

\* the refresh wrote the total of a day of which one hour could not be fetched
C16_PartialTotalWritten ==
    /\ last.op = "run_hourly_report"
    /\ SomeFetchFailed
    /\ \E i \in 1..Len(last.log) : last.log[i][1] = "update_rows" /\ last.log[i][3]
    /\ \E i \in LiveToday(Post.rows) : RowPayout(Post.rows[i]) < SumField(FetchedThrough(CumulativeFrom, hour - 1), RowKey(Post.rows[i]), "Payout")

----------------------------------------------------------------------------
(* C17: a run of sync_publisher_payouts, sync_date, run_end_of_day_report  *)
(* or run_hourly_report whose fetch succeeds with no record issues no      *)
(* store call, leaves header and rows as they were, with clear_existing    *)
(* set as well, and ends in success (the routes) or a logged warning (the  *)
(* jobs), not in an error.                                                 *)

FetchingOps == {"sync_publisher_payouts", "sync_date", "run_end_of_day_report", "run_hourly_report"}

\* the records the run fetched
FetchedByRun == IF last.op = "run_hourly_report" THEN FetchedNow ELSE last.recs

EmptyFetch ==
    /\ last.op \in FetchingOps
    /\ last.log # <<>>
    /\ last.log[1][1] = "fetch"
    /\ ~SomeFetchFailed
    /\ FetchedByRun = <<>>

C17_EmptyFetchIsNoOp ==
    EmptyFetch =>
        /\ \A i \in 1..Len(last.log) : last.log[i][1] = "fetch"
        /\ Post = last.pre
        /\ ~last.exc
        /\ last.status = (IF last.op \in ScheduledOps THEN "none" ELSE "success")

\* an empty fetch of a sync that was asked to clear a sheet that has rows
C17_EmptyFetchWithClear ==
    /\ EmptyFetch
    /\ last.op = "sync_date"
    /\ last.clear
    /\ \E i \in 1..Len(last.pre.rows) : RowDate(last.pre.rows[i]) \in last.dates

----------------------------------------------------------------------------
(* C18: sync_date called with a date string that is not of the form        *)
(* YYYY-MM-DD answers 400 before any fetch and any store call; the sheet   *)
(* is unchanged.                                                           *)

\* YYYY-MM-DD: four, two and two digits
WellFormed(s) == \E d \in -2..6 : DateStr(d) = s

MalformedSync == last.op = "sync_date" /\ \E s \in last.dates : ~WellFormed(s)

C18_MalformedDateRejected ==
    MalformedSync => last.status = "400" /\ last.log = <<>> /\ Post = last.pre

\* a date without leading zeros was taken and synced
C18_LooseDateSynced ==
    /\ MalformedSync
    /\ last.status = "success"
    /\ \E i \in 1..Len(last.log) : last.log[i][1] = "update_rows"

(* what holds of the dates strptime rejects                                *)
RejectedDateIsNoOp ==
    (last.op = "sync_date" /\ \E s \in last.dates : ~ValidDate(s))
        => last.status = "400" /\ last.log = <<>> /\ Post = last.pre

----------------------------------------------------------------------------
(* C19: a manually triggered run (sync_publisher_payouts, sync_date,       *)
(* test_daily_report, test_hourly_report) in which a fetch fails answers   *)
(* with the status error, never with success.                              *)

ManualOps == {"sync_publisher_payouts", "sync_date", "test_daily_report", "test_hourly_report"}

C19_ManualFailureSurfaced == (last.op \in ManualOps /\ SomeFetchFailed) => last.status = "error"

\* a test route answered success for a run whose fetch raised
C19_TestRouteAnsweredSuccess ==
    /\ last.op \in {"test_daily_report", "test_hourly_report"}
    /\ SomeFetchFailed
    /\ last.status = "success"

----------------------------------------------------------------------------
(* C20: in a pass over several rows (the status patches of a finalize, the *)
(* deletions of a cleanup or replace) a call that fails is followed by the *)
(* calls for all the remaining rows: a finalize issues one patch per LIVE  *)
(* row of its dates, whichever of them fail.                               *)

\* the rows the finalize of the run selected on the sheet it found
Selected ==
    IF last.op = "finalize_previous_day_data"
    THEN PreviousDayLiveRows(AllValues(last.pre), today)
    ELSE LiveRowsOfDates(AllValues(last.pre), last.dates)

PatchFailed == \E i \in Calls(last.log, "update_cell") : ~last.log[i][3]

C20_BatchContinues ==
    (last.op \in FinalizeOps /\ PatchFailed)
        => Positions(last.log, "update_cell") = Selected

\* the first of two patches failed and the second row was not tried
C20_PassAborted ==
    /\ last.op = "finalize_live_data_for_dates"
    /\ PatchFailed
    /\ Cardinality(Selected) = 2
    /\ Cardinality(Calls(last.log, "update_cell")) = 1
    /\ last.count = 0

----------------------------------------------------------------------------
(* C21: when a refresh or a backfill of a date has failed at one store     *)
(* call, the next run of the same operation with the same records and no   *)
(* failing call leaves the sheet that one run without a failure would have *)
(* left from the sheet before the failed run.                              *)

\* the sheet one run of the remembered operation without a failure leaves
CleanRun(sh) ==
    IF prev.op = "write_today_hourly_payouts"
    THEN SheetOf(write_today_hourly_payouts(Run(sh, {}), prev.recs, CHOOSE d \in prev.dates : TRUE))
    ELSE SheetOf(write_publisher_payouts(Run(sh, {}), prev.recs, prev.clear))

\* the run is the failure-free repetition of the failed run before it
RerunOfFailed ==
    /\ prev.op \in ReplacingWrites
    /\ last.op = prev.op
    /\ last.recs = prev.recs
    /\ last.dates = prev.dates
    /\ last.clear = prev.clear
    /\ ~SomeCallFailed

C21_RerunConverges == RerunOfFailed => Post = CleanRun(prev.pre)

\* the repetition of a refresh whose read of the FINAL rows had failed: the
\* LIVE rows the failed run wrote next to the FINAL rows are still there
C21_LiveRowsLeftBesideFinal ==
    /\ RerunOfFailed
    /\ last.op = "write_today_hourly_payouts"
    /\ \E i \in 1..Len(Post.rows) : IsFinalDaily(Post.rows[i]) /\ RowDate(Post.rows[i]) = DateStr(today)
    /\ \E i \in 1..Len(Post.rows) : IsLiveDaily(Post.rows[i]) /\ RowDate(Post.rows[i]) = DateStr(today)

----------------------------------------------------------------------------
(* C22: after any sequence of write_publisher_payouts (clearing or not),   *)
(* write_today_hourly_payouts, finalize_live_data_for_dates and sync_date  *)
(* the daily sheet holds at most one FINAL row per date and                *)
(* publisher/campaign key, and a LIVE write adds no LIVE row for a date    *)
(* that had FINAL rows.                                                    *)

DailyKey(r) == <<RowDate(r), r[2], r[3]>>

OneFinalPerKey(rs) ==
    \A i, j \in 1..Len(rs) :
        (IsFinalDaily(rs[i]) /\ IsFinalDaily(rs[j]) /\ DailyKey(rs[i]) = DailyKey(rs[j])) => i = j

LiveOn(rs, d) == {i \in 1..Len(rs) : IsLiveDaily(rs[i]) /\ RowDate(rs[i]) = d}

FinalOn(rs, d) == {i \in 1..Len(rs) : IsFinalDaily(rs[i]) /\ RowDate(rs[i]) = d}

NoLiveBesideFinal ==
    last.op = "write_today_hourly_payouts" =>
        \A d \in last.dates :
            FinalOn(last.pre.rows, d) # {}
                => Cardinality(LiveOn(Post.rows, d)) <= Cardinality(LiveOn(last.pre.rows, d))

C22_DailySheetInvariant == OneFinalPerKey(daily.rows) /\ NoLiveBesideFinal

\* two FINAL rows of one date and publisher
C22_TwoFinalRowsOfOneKey == ~OneFinalPerKey(daily.rows)

----------------------------------------------------------------------------
(* C23: after run_hourly_report has run inside the operating window with a *)
(* non-empty fetch of the previous hour, on a date without FINAL rows, the *)
(* hourly sheet holds one row group of the date: the cumulative rows, all  *)
(* LIVE and tagged with the hour identifier "YYYY-MM-DD HH:00" of the      *)
(* processed hour; the LIVE rows of the earlier hour are gone and the rows *)
(* of other dates are as they were.                                        *)

FinalTodayHourly(rs) == {i \in 1..Len(rs) : IsFinalHourly(rs[i]) /\ RowDate(rs[i]) = DateStr(today)}

NotLiveToday(r) == ~(IsLiveHourly(r) /\ RowDate(r) = DateStr(today))

\* "YYYY-MM-DD HH:00" of the processed hour
ProcessedHourId ==
    CASE hour - 1 = 9 -> DateStr(today) \o " 09:00"
      [] hour - 1 = 10 -> DateStr(today) \o " 10:00"
      [] OTHER -> DateStr(today) \o " 11:00"

C23_OneLiveGroupOfTheHour ==
    (Refreshed /\ FinalTodayHourly(last.pre.rows) = {}) =>
        /\ Post.rows = SelectSeq(last.pre.rows, NotLiveToday)
                        \o HourlyRows(last.recs, ProcessedHourId)
        /\ Cardinality(LiveToday(Post.rows)) = Len(last.recs)
        /\ \A i \in LiveToday(Post.rows) : Post.rows[i][HourCol] = ProcessedHourId

\* the refresh of hour 10 replaced the row group the refresh of hour 9 wrote
C23_EarlierGroupSuperseded ==
    /\ Refreshed
    /\ hour - 1 = 10
    /\ \E i \in LiveToday(last.pre.rows) : last.pre.rows[i][HourCol] = DateStr(today) \o " 09:00"
    /\ \A i \in LiveToday(Post.rows) : Post.rows[i][HourCol] = DateStr(today) \o " 10:00"
    /\ LiveToday(Post.rows) # {}

----------------------------------------------------------------------------
(* C24: every record of one fetch carries the calendar date of the start   *)
(* of the fetched range, so every row written from a fetch has that date   *)
(* in its Date column: the rows sync_date writes are dated with its date.  *)

SyncedSome == last.op = "sync_date" /\ last.status = "success" /\ last.recs # <<>>

\* the rows of the sheet that were not there before the run
NewRows == {i \in 1..Len(Post.rows) : \A j \in 1..Len(last.pre.rows) : last.pre.rows[j] # Post.rows[i]}

C24_RecordsCarryBucketDate ==
    SyncedSome =>
        /\ \A i \in 1..Len(last.recs) : Get(last.recs[i], "Date", "") \in {DateStr(DayOf(d)) : d \in last.dates}
        /\ \A i \in NewRows : RowDate(Post.rows[i]) \in {DateStr(DayOf(d)) : d \in last.dates}

\* a sync of a date wrote a row with an empty Date column
C24_RowWithoutDate ==
    /\ SyncedSome
    /\ \E i \in NewRows : RowDate(Post.rows[i]) = "" /\ IsFinalDaily(Post.rows[i])

----------------------------------------------------------------------------
(* C25: from a response of the nested shape { report: { records } } or of  *)
(* a legacy shape, get_publisher_payouts returns one record per result     *)
(* that names a publisher and none for a result that does not, whatever    *)
(* the payout of that result.                                              *)

\* the results of a response body
Results(data) ==
    IF "report" \in DOMAIN data THEN data.report.records
    ELSE IF "groups" \in DOMAIN data THEN data.groups
    ELSE <<>>

NamesPublisher(item) == "publisherName" \in DOMAIN item

Normalized(data) ==
    [i \in 1..Len(SelectSeq(Results(data), NamesPublisher)) |->
        [Publisher |-> SelectSeq(Results(data), NamesPublisher)[i].publisherName,
         Payout |-> SelectSeq(Results(data), NamesPublisher)[i].payoutAmount]]

\* the refresh has fetched the hour it processes
FetchedTheHour ==
    /\ last.op = "run_hourly_report"
    /\ last.log # <<>>
    /\ last.log[1] = <<"fetch", hour - 1, TRUE>>

C25_ResponseNormalized == FetchedTheHour => FetchedNow = Normalized(feed[hour - 1])

\* a response of the nested shape with one result gave no record
C25_NestedShapeGivesNothing ==
    /\ FetchedTheHour
    /\ "report" \in DOMAIN feed[hour - 1]
    /\ Len(feed[hour - 1].report.records) = 1
    /\ last.status = "none"

----------------------------------------------------------------------------
(* C26: the operations that read rows (_delete_today_live_rows,            *)
(* _has_finalized_data_for_date, finalize_live_data_for_dates) find the    *)
(* Date and Status columns where write_today_hourly_payouts has put them,  *)
(* under every header, by name or by the fixed column order: the LIVE rows *)
(* a refresh has written are the LIVE rows of their date for the readers.  *)

WroteLiveRows ==
    /\ last.op = "write_today_hourly_payouts"
    /\ \E i \in Calls(last.log, "update_rows") : last.log[i][3]

\* the date the writer gives the row of a record
DateWritten(pub) == Get(pub, "Date", CHOOSE d \in last.dates : TRUE)

C26_ReadersFindWrittenRows ==
    WroteLiveRows =>
        \A i \in 1..Len(last.recs) :
            /\ LiveRowsOf(AllValues(Post), DateWritten(last.recs[i])) # {}
            /\ LiveRowsOfDates(AllValues(Post), {DateWritten(last.recs[i])}) # {}

\* LIVE rows written under a header that does not name the Date column: no
\* reader finds them
C26_WrittenRowsNotFound ==
    /\ WroteLiveRows
    /\ ColLast(Post.hdr, "date") = 0
    /\ \E i \in 1..Len(Post.rows) : IsLiveDaily(Post.rows[i]) /\ RowDate(Post.rows[i]) \in last.dates
    /\ \A d \in last.dates : LiveRowsOf(AllValues(Post), d) = {}

----------------------------------------------------------------------------
(* The event loop.  The scheduled jobs (AsyncIOScheduler) and the HTTP     *)
(* handlers are coroutines of one asyncio loop.  A coroutine runs in       *)
(* stretches; the loop can start or resume another coroutine only where    *)
(* the running one awaits something that is not ready.  The store calls    *)
(* and the fetches are blocking calls.  `loop` holds the tasks created     *)
(* and not started (ready), the suspended ones (parked), the one in the    *)
(* middle of its code (running), their local variables (frame) and, per    *)
(* stretch that issued store calls, the task and the stretch (calls).      *)

Tasks == {"run_end_of_day_report", "run_hourly_report", "finalize_previous_day_data",
          "sync_date", "ringba_webhook"}

\* the webhook bodies
Payloads == {[Publisher |-> "p1"], [Date |-> DateStr(1), Publisher |-> "p2"]}

\* sorted(payload.keys()) over the keys of the bodies
SortedKeys(payload) ==
    LET Present(k) == k \in DOMAIN payload
    IN  SelectSeq(<<"Date", "Publisher">>, Present)

\* header = _get_header_row(); if not header: header = sorted(keys), set it;
\* row = [str(payload.get(key, "")) for key in header]; append_row(row)
append_payload(st, payload) ==
    Let(_get_header_row(st), LAMBDA s1 :
        LET header == IF s1.ret = <<>> THEN SortedKeys(payload) ELSE s1.ret
        IN  OnOk(IF s1.ret = <<>> THEN _set_header_row(s1, header) ELSE s1, LAMBDA s2 :
                append_row(s2, [i \in 1..Len(header) |-> Get(payload, header[i], "")])))

\* the stretches of a coroutine: sync_date is the fetch with the clear pass
\* and then the write; ringba_webhook is the receipt of the request and,
\* after `await request.json()`, the append; the others are one stretch
Stretches(op) == IF op \in {"sync_date", "ringba_webhook"} THEN 2 ELSE 1

\* every boundary between two stretches lets another task run, as between
\* the statements of threads
Preemptive(op, k) == TRUE

\* after stretch k the coroutine awaits something that is not ready: only
\* the body of the webhook request; the clear pass and the write of
\* sync_date follow each other without an await
Suspends(op, k) == op = "ringba_webhook" /\ k = 1

CanStart(op) == loop.running = "" /\ op \in loop.ready

CanResume(op) == loop.running = op \/ (loop.running = "" /\ op \in loop.parked)

\* the calls of a run's log that went to the sheet
IsStoreCall(entry) == entry[1] # "fetch"

\* the loop after stretch k of op, which left the frame fr and issued the
\* calls of log; more: the coroutine has not returned
Stepped(op, k, fr, log, more) ==
    LET goes_on == more /\ k < Stretches(op)
    IN  [ready |-> loop.ready \ {op},
         parked |-> IF goes_on /\ Suspends(op, k) THEN loop.parked \cup {op}
                    ELSE loop.parked \ {op},
         running |-> IF goes_on /\ ~Suspends(op, k) THEN op ELSE "",
         frame |-> (op :> fr) @@ loop.frame,
         calls |-> IF SelectSeq(log, IsStoreCall) = <<>> THEN loop.calls
                   ELSE Append(loop.calls, <<op, k>>)]

OnDaily(st, op, k, fr, more) ==
    /\ Len(st.rows) <= MaxRows
    /\ daily' = SheetOf(st)
    /\ loop' = Stepped(op, k, fr, st.log, more)
    /\ UNCHANGED <<hourly, today, last, prev, hour, feed>>

OnHourly(st, op) ==
    /\ Len(st.rows) <= MaxRows
    /\ hourly' = SheetOf(st)
    /\ loop' = Stepped(op, 1, <<>>, st.log, FALSE)
    /\ UNCHANGED <<daily, today, last, prev, hour, feed>>

EndOfDayTask ==
    /\ CanStart("run_end_of_day_report")
    /\ \E d \in Responses :
        OnDaily(run_end_of_day_report(Run(daily, {}), today, <<d, d, d>>),
                "run_end_of_day_report", 1, <<>>, FALSE)

HourlyTask ==
    /\ CanStart("run_hourly_report")
    /\ OnHourly(run_hourly_report(Run(hourly, {}), today, hour, feed), "run_hourly_report")

FinalizeTask ==
    /\ CanStart("finalize_previous_day_data")
    /\ OnHourly(finalize_previous_day_data(Run(hourly, {}), today),
                "finalize_previous_day_data")

\* sync_date up to the write: the fetch and, if asked for, the clear pass
SyncDateClears ==
    /\ CanStart("sync_date")
    /\ \E date \in Dates, data \in Responses, clear \in BOOLEAN :
        LET s1 == get_publisher_payouts(Run(daily, {}), DayOf(date), data)
            more == ~s1.exc /\ s1.ret # <<>>
        IN  OnDaily(IF more /\ clear THEN ClearDate(s1, date) ELSE s1, "sync_date", 1,
                    [date |-> date, data |-> data, clear |-> clear, publishers |-> s1.ret,
                     pre |-> daily, post |-> EmptySheet, returned |-> ~more],
                    more)

\* sync_date from the write on
SyncDateWrites ==
    /\ CanResume("sync_date")
    /\ LET fr == loop.frame["sync_date"]
           st == write_publisher_payouts(Run(daily, {}), fr.publishers, FALSE)
       IN  OnDaily(st, "sync_date", 2, [fr EXCEPT !.post = SheetOf(st), !.returned = TRUE],
                   FALSE)

\* the request has arrived; the handler awaits its body
WebhookReceives ==
    /\ CanStart("ringba_webhook")
    /\ OnDaily(Run(daily, {}), "ringba_webhook", 1, <<>>, TRUE)

\* the body is there: the payload is appended
WebhookAppends ==
    /\ CanResume("ringba_webhook")
    /\ \E payload \in Payloads :
        OnDaily(append_payload(Run(daily, {}), payload), "ringba_webhook", 2, <<>>, FALSE)

LoopSeeds ==
    {Sheet(DailyHeader, rs) : rs \in SeqsUpTo(DailyRowTypes, MaxInitRows)} \cup {EmptySheet}

InitLoop ==
    /\ daily \in LoopSeeds
    /\ hourly \in RefreshSeeds
    /\ today = MaxDay
    /\ last = Idle
    /\ prev = NoRun
    /\ hour = StartHour + 1
    /\ feed = BusyDay
    /\ loop = [NoTasks EXCEPT !.ready = Tasks, !.frame = [t \in Tasks |-> <<>>]]

\* the tasks of one minute on the event loop
NextLoop ==
    \/ EndOfDayTask
    \/ HourlyTask
    \/ FinalizeTask
    \/ SyncDateClears
    \/ SyncDateWrites
    \/ WebhookReceives
    \/ WebhookAppends

SpecLoop == InitLoop /\ [][NextLoop]_vars

----------------------------------------------------------------------------
(* C27: no two engine entry points interleave their store operations:      *)
(* between the first and the last store call of one run there is no store  *)
(* call of another run, and a run that clears and then writes leaves the   *)
(* sheet that the handler leaves when it runs alone on the sheet it found. *)

\* the stretches with store calls of one task lie side by side
Contiguous(calls) ==
    \A i, j, k \in 1..Len(calls) :
        (i < j /\ j < k /\ calls[i][1] = calls[k][1]) => calls[j][1] = calls[i][1]

SyncDateReturned == loop.frame["sync_date"] # <<>> /\ loop.frame["sync_date"].returned

SyncDateAlone ==
    LET fr == loop.frame["sync_date"]
    IN  SheetOf(sync_date(Run(fr.pre, {}), fr.date, fr.data, fr.clear))

C27_RunsDoNotInterleave ==
    /\ Contiguous(loop.calls)
    /\ (SyncDateReturned /\ loop.frame["sync_date"].publishers # <<>>) =>
            loop.frame["sync_date"].post = SyncDateAlone

\* a sync_date that has cleared rows and written, begun while the webhook
\* awaited its body, which was appended after the sync
C27_SyncWhileWebhookParked ==
    /\ Len(loop.calls) >= 3
    /\ \E i \in 1..(Len(loop.calls) - 2) :
        /\ loop.calls[i] = <<"sync_date", 1>>
        /\ loop.calls[i + 1] = <<"sync_date", 2>>
        /\ loop.calls[i + 2] = <<"ringba_webhook", 2>>
    /\ loop.frame["sync_date"].clear
    /\ loop.frame["sync_date"].post # loop.frame["sync_date"].pre

----------------------------------------------------------------------------
(* The delete passes under failing store calls: the cleanup of the hourly  *)
(* sheet, the LIVE rows a refresh removes and the rows a backfill          *)
(* replaces, on sheets where the selected rows are not the last ones.      *)

DeleteDailySeeds ==
    {Sheet(DailyHeader, rs) :
        rs \in {<<DailyRow(DateStr(FirstDay), "p1", "LIVE"), DailyRow(DateStr(FirstDay), "p2", "LIVE"),
                  DailyRow(DateStr(FirstDay - 1), "p1", "LIVE")>>,
                <<DailyRow(DateStr(FirstDay), "p1", "LIVE"), DailyRow(DateStr(FirstDay - 1), "p1", "LIVE"),
                  DailyRow(DateStr(FirstDay), "p2", "LIVE")>>,
                <<DailyRow(DateStr(FirstDay - 1), "p1", "FINAL"), DailyRow(DateStr(FirstDay), "p1", "LIVE"),
                  DailyRow(DateStr(FirstDay), "p2", "LIVE")>>}}

\* the cumulative record of a publisher as the hourly refresh hands it on
TotalOf(name, amount) ==
    Stamped(NewTotal([Publisher |-> name, Payout |-> amount]), DateStr(FirstDay), "LIVE")

\* the rows of two refreshes of one hour, the later one with two publishers
TwoGroups ==
    Sheet(HourlyHeader,
          HourlyRows(<<TotalOf("p1", 1)>>, HourId(DateStr(FirstDay), FirstProcessed))
            \o HourlyRows(<<TotalOf("p1", 2), TotalOf("p2", 1)>>,
                          HourId(DateStr(FirstDay), FirstProcessed)))

\* hourly sheets with three rows of one hour bucket, or two and a FINAL row,
\* or two row groups of one hour
DeleteHourlySeeds ==
    {TwoGroups} \cup
    {Sheet(HourlyHeader, rs) :
        rs \in {<<HourlyRow(DateStr(FirstDay), "1", "LIVE"), HourlyRow(DateStr(FirstDay), "2", "LIVE"),
                  HourlyRow(DateStr(FirstDay), "1", "LIVE")>>,
                <<HourlyRow(DateStr(FirstDay), "2", "LIVE"), HourlyRow(DateStr(FirstDay), "1", "LIVE"),
                  HourlyRow(DateStr(FirstDay), "1", "LIVE")>>,
                <<HourlyRow(DateStr(FirstDay), "1", "LIVE"), HourlyRow(DateStr(FirstDay), "1", "FINAL"),
                  HourlyRow(DateStr(FirstDay), "2", "LIVE")>>,
                <<HourlyRow(DateStr(FirstDay), "1", "LIVE"), HourlyRow(DateStr(FirstDay - 1), "1", "LIVE"),
                  HourlyRow(DateStr(FirstDay), "2", "LIVE")>>}}

\* the client's removal of the LIVE rows of today, called on its own
DeleteTodayLiveRows(F) ==
    DailyStep(Counted(_delete_today_live_rows(Run(daily, F), DateStr(today))),
              "_delete_today_live_rows", {DateStr(today)}, <<>>, FALSE)

InitDeletes ==
    /\ daily \in DeleteDailySeeds
    /\ hourly \in DeleteHourlySeeds
    /\ today = FirstDay
    /\ last = Idle
    /\ prev = NoRun
    /\ hour = StartHour
    /\ feed = QuietDay
    /\ loop = NoTasks

NextDeletes ==
    \E F \in FailSets :
        \/ CleanupHourlyDuplicates(F)
        \/ DeleteTodayLiveRows(F)
        \/ BackfillDate(F)
        \/ FinalizeLiveDataForDates(F)
        \/ Returned

SpecDeletes == InitDeletes /\ [][NextDeletes]_vars

----------------------------------------------------------------------------
(* C28: a delete pass issues its deleteRow calls in strictly descending    *)
(* position order, so every call that succeeds removes the row that stood  *)
(* at its position when the sheet was read and every other row of the      *)
(* sheet stays, in its order - also when a call of the pass fails and the  *)
(* pass goes on.                                                           *)

DeletePasses == {"cleanup_hourly_duplicates", "_delete_today_live_rows", "write_publisher_payouts"}

DeleteCalls == Calls(last.log, "delete_rows")

\* the rows of the sheet as read whose delete call succeeded
RemovedRows == {last.log[i][2] - 1 : i \in {c \in DeleteCalls : last.log[c][3]}}

RECURSIVE Without(_, _, _)
\* the rows rs from index i on, without those of the index set S
Without(rs, S, i) ==
    IF i > Len(rs) THEN <<>>
    ELSE (IF i \in S THEN <<>> ELSE <<rs[i]>>) \o Without(rs, S, i + 1)

\* the same row, but for the status a finalize has patched
SameRow(new, old) ==
    /\ Len(new) = Len(old)
    /\ \A c \in 1..Len(old) : c # StatusColOf(last.on) => new[c] = old[c]
    /\ last.on = "hourly" => new = old

C28_DeletesHitSelectedRows ==
    (last.op \in DeletePasses /\ DeleteCalls # {}) =>
        /\ \A i, j \in DeleteCalls : i < j => last.log[i][2] > last.log[j][2]
        /\ LET kept == Without(last.pre.rows, RemovedRows, 1)
           IN  /\ Len(Post.rows) >= Len(kept)
               /\ \A i \in 1..Len(kept) : SameRow(Post.rows[i], kept[i])
        /\ last.op = "cleanup_hourly_duplicates" =>
                {last.log[i][2] : i \in DeleteCalls} = Duplicates(AllValues(last.pre))

\* a cleanup with two selected rows whose first delete call failed: the
\* second call removed its row and the others stayed
C28_PassWentOnAfterFailure ==
    /\ last.op = "cleanup_hourly_duplicates"
    /\ Cardinality(DeleteCalls) = 2
    /\ \E i, j \in DeleteCalls : i < j /\ ~last.log[i][3] /\ last.log[j][3]
    /\ Len(Post.rows) = Len(last.pre.rows) - 1

----------------------------------------------------------------------------
(* C29: when several row groups share one hour bucket key, the cleanup     *)
(* keeps the most recent group whole - every (publisher, campaign, target) *)
(* row of the group with the highest positions stays - and removes only    *)
(* the rows of the older groups.                                           *)

\* the rows of an hour bucket that are not FINAL
BucketRows(rs, key) == {i \in 1..Len(rs) : ~IsFinalHourly(rs[i]) /\ rs[i][HourCol] = key}

\* the rows of the bucket from position i on name distinct keys
OneGroupFrom(rs, key, i) ==
    \A a, b \in {j \in BucketRows(rs, key) : j >= i} : a # b => RowKey(rs[a]) # RowKey(rs[b])

\* the most recent group: the rows of the bucket from the lowest position on
\* from which the keys are distinct
MostRecentGroup(rs, key) ==
    {j \in BucketRows(rs, key) :
        j >= MinOf({i \in BucketRows(rs, key) : OneGroupFrom(rs, key, i)})}

\* the rows of the older groups of every bucket
OlderGroups(rs) ==
    {i \in 1..Len(rs) : ~IsFinalHourly(rs[i]) /\ i \notin MostRecentGroup(rs, rs[i][HourCol])}

CleanedUp == last.op = "cleanup_hourly_duplicates" /\ ~SomeCallFailed

C29_RecentGroupKeptWhole ==
    (CleanedUp /\ OlderGroups(last.pre.rows) # {}) =>
        Post.rows = Without(last.pre.rows, OlderGroups(last.pre.rows), 1)

\* a cleanup of two groups of one hour, the recent one with two publishers,
\* that has left one row
C29_RecentGroupCut ==
    /\ CleanedUp
    /\ last.pre = TwoGroups
    /\ Cardinality(MostRecentGroup(last.pre.rows, HourId(DateStr(FirstDay), FirstProcessed))) = 2
    /\ Len(Post.rows) = 1

----------------------------------------------------------------------------
(* C30: the count an operation reports (rows_removed of the cleanup, the   *)
(* return value of finalize_live_data_for_dates and of                     *)
(* _delete_today_live_rows) is the number of rows the operation has        *)
(* deleted or patched in the store, also when a store call of the pass     *)
(* failed.                                                                 *)

CountingOps == {"cleanup_hourly_duplicates", "finalize_live_data_for_dates", "_delete_today_live_rows"}

\* the rows of the sheet that the run has removed or changed
RowsTouched ==
    IF last.op = "finalize_live_data_for_dates"
    THEN Cardinality({i \in 1..Len(last.pre.rows) : Post.rows[i] # last.pre.rows[i]})
    ELSE Len(last.pre.rows) - Len(Post.rows)

C30_CountsAreTrue == last.op \in CountingOps => last.count = RowsTouched

\* a cleanup that reports two rows removed and has removed one
C30_CleanupOvercounts ==
    /\ last.op = "cleanup_hourly_duplicates"
    /\ SomeCallFailed
    /\ last.count = 2
    /\ RowsTouched = 1

----------------------------------------------------------------------------
(* The cron schedule (lifespan).  The clock goes through the hours of the  *)
(* local day; at every hour the scheduler makes the jobs due whose trigger *)
(* names the hour (loop.ready), each due job runs once, and the firing is  *)
(* kept with its day, its hour and the dates of the records it handled     *)
(* (loop.calls).                                                           *)

FinalizeAt == 5      \* CronTrigger(hour=5, minute=5)
EndOfDayAt == 9      \* CronTrigger(hour=9, minute=0, day_of_week='mon-fri')
HourlyFrom == 9      \* CronTrigger(minute=5, hour='9-21')
HourlyTo == 21
\* the last hour of the local day
LastHour == HourlyTo + 2

\* a scheduler whose triggers name every hour
DueEveryHour(job, day, h) == TRUE

\* the triggers of the three jobs
Due(job, day, h) ==
    CASE job = "finalize_previous_day_data" -> h = FinalizeAt
      [] job = "run_hourly_report" -> h >= HourlyFrom /\ h <= HourlyTo
      [] job = "run_end_of_day_report" -> h = EndOfDayAt /\ Weekday(day) \in 0..4
      [] OTHER -> FALSE

ScheduledJobs == {"finalize_previous_day_data", "run_hourly_report", "run_end_of_day_report"}

\* a day with payouts in the first two hours of the window and in the last
CronFeed ==
    [h \in 0..LastHour |->
        IF h \in {CumulativeFrom, CumulativeFrom + 1, LastProcessed - 1}
        THEN [groups |-> <<Item("p1", 1)>>] ELSE [groups |-> <<>>]]

\* the dates of the records a run has handled
DatesHandled(run) == {Get(run.recs[i], "Date", "") : i \in 1..Len(run.recs)}

CronHourly == "run_hourly_report" \in loop.ready /\ RunHourlyReport({})

CronFinalize == "finalize_previous_day_data" \in loop.ready /\ FinalizePreviousDayData({})

CronEndOfDay == "run_end_of_day_report" \in loop.ready /\ RunEndOfDayReport({})

\* the manual route, at any hour
CronManual == TestHourlyReport({})

\* the run has returned; the firing of a job is kept
CronReturned ==
    /\ last # Idle
    /\ last' = Idle
    /\ prev' = Remembered(last)
    /\ loop' = [loop EXCEPT !.ready = @ \ {last.op},
                            !.calls = IF last.op \notin ScheduledJobs THEN @
                                      ELSE Append(@, [job |-> last.op, day |-> today, hour |-> hour,
                                                      dates |-> DatesHandled(last),
                                                      acted |-> last.log # <<>>])]
    /\ UNCHANGED <<daily, hourly, today, hour, feed>>

\* the next hour; the jobs of the hour become due
CronTick ==
    /\ last = Idle
    /\ loop.ready = {}
    /\ hour < LastHour \/ today < MaxDay
    /\ hour' = IF hour < LastHour THEN hour + 1 ELSE 0
    /\ today' = IF hour < LastHour THEN today ELSE today + 1
    /\ loop' = [loop EXCEPT !.ready = {j \in ScheduledJobs : Due(j, today', hour')}]
    /\ UNCHANGED <<daily, hourly, last, prev, feed>>

InitCron ==
    /\ daily = EmptySheet
    /\ hourly \in RefreshSeeds
    /\ today = FirstDay
    /\ last = Idle
    /\ prev = NoRun
    /\ hour = 0
    /\ feed = CronFeed
    /\ loop = NoTasks

NextCron ==
    \/ CronHourly
    \/ CronFinalize
    \/ CronEndOfDay
    \/ CronManual
    \/ CronReturned
    \/ CronTick

SpecCron == InitCron /\ [][NextCron]_vars

----------------------------------------------------------------------------
(* C31: under the cron schedule no scheduled hourly refresh handles        *)
(* records dated D after the finalize run for D (the one of day D+1) has   *)
(* fired, and the finalize run of a day fires before every hourly refresh  *)
(* of that day.                                                            *)

Firings(job) == {i \in 1..Len(loop.calls) : loop.calls[i].job = job}

C31_FinalizeAndRefreshApart ==
    \A f \in Firings("finalize_previous_day_data"), r \in Firings("run_hourly_report") :
        /\ f < r => DateStr(loop.calls[f].day - 1) \notin loop.calls[r].dates
        /\ loop.calls[f].day = loop.calls[r].day => f < r

\* on the second day the finalize has fired, and after it a refresh that
\* wrote the records of that day
C31_RefreshAfterFinalize ==
    \E f \in Firings("finalize_previous_day_data"), r \in Firings("run_hourly_report") :
        /\ f < r
        /\ loop.calls[f].day = MaxDay
        /\ loop.calls[f].acted
        /\ loop.calls[r].dates = {DateStr(MaxDay)}
        /\ \E i \in 1..Len(hourly.rows) :
            IsFinalHourly(hourly.rows[i]) /\ RowDate(hourly.rows[i]) = DateStr(MaxDay - 1)

----------------------------------------------------------------------------
(* C32: run_hourly_report issues a fetch or a store call only when the     *)
(* local hour h of the run is in 9..21 and the previous hour h-1 is in     *)
(* 9..20: the run at 09:05 does nothing, the hour buckets processed are    *)
(* exactly 9..20, and a run outside the window leaves the sheet unchanged. *)

HourlyRuns == {"run_hourly_report", "test_hourly_report"}

InsideWindow == hour >= 9 /\ hour <= 21 /\ hour - 1 >= 9 /\ hour - 1 < 21

C32_OperatingWindow ==
    last.op \in HourlyRuns =>
        /\ last.log # <<>> => InsideWindow
        /\ InsideWindow => last.log # <<>> /\ last.log[1] = <<"fetch", hour - 1, TRUE>>
        /\ ~InsideWindow => Post = last.pre
        /\ \A i \in Calls(last.log, "fetch") : last.log[i][2] \in 9..20

\* the scheduled run of 09:05 has issued no call
C32_NineOFiveSkipped ==
    /\ last.op = "run_hourly_report"
    /\ hour = 9
    /\ last.log = <<>>
    /\ last.status = "skipped"

----------------------------------------------------------------------------
(* C33: finalize_previous_day_data patches a row only if the row is LIVE   *)
(* and dated the local day before the run; a LIVE row with an older date   *)
(* is left LIVE by the run, and so by every later run.                     *)

\* a LIVE row dated before the day before `day`
StaleLive(r, day) ==
    IsLiveHourly(r) /\ \E d \in -2..(day - 2) : RowDate(r) = DateStr(d)

FinalizeRuns == last = Idle /\ last'.op = "finalize_previous_day_data"

FinalizeReachesYesterdayOnly ==
    FinalizeRuns =>
        /\ Len(hourly'.rows) = Len(hourly.rows)
        /\ \A i \in 1..Len(hourly.rows) :
            /\ hourly'.rows[i] # hourly.rows[i] =>
                    IsLiveHourly(hourly.rows[i]) /\ RowDate(hourly.rows[i]) = DateStr(today - 1)
            /\ StaleLive(hourly.rows[i], today) => hourly'.rows[i] = hourly.rows[i]

\* a row that is stale for a run is stale for the runs of every later day
StaleStays ==
    \A i \in 1..Len(hourly.rows) :
        (StaleLive(hourly.rows[i], today) /\ today' >= today /\ hourly'.rows = hourly.rows)
            => StaleLive(hourly'.rows[i], today')

C33_FinalizeOnlyYesterday == [][FinalizeReachesYesterdayOnly /\ StaleStays]_vars

\* a finalize run on a sheet with a LIVE row two days old, which is LIVE
\* after the run
C33_StaleRowLeftLive ==
    /\ last.op = "finalize_previous_day_data"
    /\ \E i \in 1..Len(last.pre.rows) :
        /\ StaleLive(last.pre.rows[i], today)
        /\ i <= Len(hourly.rows)
        /\ hourly.rows[i] = last.pre.rows[i]

----------------------------------------------------------------------------
(* C34: finalize_previous_day_data and cleanup_hourly_duplicates read the  *)
(* Status of a row from the same column: a row that holds FINAL where the  *)
(* finalize writes it is skipped by the cleanup, and the rows the cleanup  *)
(* treats as one group share the Hour cell.                                *)

\* FINAL in the column finalize_previous_day_data patches
MarkedFinal(r) == Len(r) >= FinalizeStatusCol /\ Upper(Strip(r[FinalizeStatusCol])) = "FINAL"

\* the rows of the sheet as read that the cleanup has asked to delete
CleanupDeletes == Positions(last.log, "delete_rows")

C34_CleanupReadsFinalizeLayout ==
    last.op = "cleanup_hourly_duplicates" =>
        \A p \in CleanupDeletes :
            /\ ~MarkedFinal(last.pre.rows[p - 1])
            /\ \E q \in (p + 1)..(Len(last.pre.rows) + 1) :
                /\ q \notin CleanupDeletes
                /\ last.pre.rows[q - 1][HourCol] = last.pre.rows[p - 1][HourCol]

\* a cleanup that has deleted a FINAL row of the previous day, grouped with
\* another FINAL row under the value of the Status cell
C34_FinalRowDeleted ==
    /\ last.op = "cleanup_hourly_duplicates"
    /\ \E p \in CleanupDeletes :
        /\ MarkedFinal(last.pre.rows[p - 1])
        /\ RowDate(last.pre.rows[p - 1]) = DateStr(today - 1)
    /\ Len(hourly.rows) < Len(last.pre.rows)

----------------------------------------------------------------------------
(* C35: a finalize operation run a second time right after a first run in  *)
(* which no call failed (finalize_previous_day_data on the same local      *)
(* date, finalize_live_data_for_dates with the same dates) issues no patch *)
(* and leaves the sheet as the first run left it.                          *)

\* the same operation run again on the sheet as it is now
SecondRun ==
    IF last.op = "finalize_previous_day_data"
    THEN finalize_previous_day_data(Run(Post, {}), today)
    ELSE finalize_live_data_for_dates(Run(Post, {}), last.dates)

IdempotentOps == {"finalize_previous_day_data", "finalize_live_data_for_dates"}

C35_FinalizeIdempotent ==
    (last.op \in IdempotentOps /\ ~SomeCallFailed) =>
        /\ Calls(SecondRun.log, "update_cell") = {}
        /\ SheetOf(SecondRun) = Post

\* a first run that patched a row, and a second run that reads and patches
\* nothing
C35_SecondRunAfterPatch ==
    /\ last.op \in IdempotentOps
    /\ ~SomeCallFailed
    /\ Calls(last.log, "update_cell") # {}
    /\ Post # last.pre
    /\ Calls(SecondRun.log, "get_all_values") # {}
    /\ Calls(SecondRun.log, "update_cell") = {}

----------------------------------------------------------------------------
(* C36: after write_publisher_payouts(records, clear_existing=True) has    *)
(* returned normally the data rows of the sheet are exactly the rows built *)
(* from the records, in order, each FINAL, and no row of the previous      *)
(* content remains - whatever the length of the sheet before, and also     *)
(* when the clearing call fails.                                           *)

FullReplace ==
    /\ last.op = "sync_publisher_payouts"
    /\ last.clear
    /\ last.recs # <<>>
    /\ last.status = "success"

C36_FullReplaceExact == FullReplace => Post.rows = FinalRows(last.recs)

\* a full replace whose read before the clear raised: the write returned
\* normally and a row of the previous content is still in the sheet
C36_OldRowSurvives ==
    /\ FullReplace
    /\ \E i \in Calls(last.log, "get_all_values") : ~last.log[i][3]
    /\ Len(Post.rows) > Len(last.recs)
    /\ Post.rows[Len(Post.rows)] = last.pre.rows[Len(last.pre.rows)]

----------------------------------------------------------------------------
(* C37: run_end_of_day_report run on a Monday issues exactly three         *)
(* fetches, for the days three, two and one day before the run, in that    *)
(* order, and writes their records in one write_publisher_payouts call; on *)
(* any other weekday it issues exactly one fetch, for the previous day; it *)
(* never fetches the day of the run.                                       *)

IsFetch(entry) == entry[1] = "fetch"

\* the buckets of the fetches of the run, in the order of the calls
FetchedBuckets == [i \in 1..Len(SelectSeq(last.log, IsFetch)) |-> SelectSeq(last.log, IsFetch)[i][2]]

\* the run's day is the Monday of the calendar window
RunsOnMonday == DateStr(today) = "2026-01-05"

C37_BackfillBuckets ==
    last.op = "run_end_of_day_report" =>
        /\ RunsOnMonday => FetchedBuckets = <<today - 3, today - 2, today - 1>>
        /\ ~RunsOnMonday => FetchedBuckets = <<today - 1>>
        /\ \A i \in 1..Len(FetchedBuckets) : FetchedBuckets[i] # today
        /\ last.recs # <<>> =>
                Post = SheetOf(write_publisher_payouts(Run(last.pre, {}), last.recs, FALSE))
        /\ last.recs = <<>> => Post = last.pre

\* a Monday run whose three fetches gave records, written by one update
C37_MondayBackfill ==
    /\ last.op = "run_end_of_day_report"
    /\ RunsOnMonday
    /\ Len(FetchedBuckets) = 3
    /\ Len(last.recs) = 3
    /\ Cardinality(Calls(last.log, "update_rows")) = 1

----------------------------------------------------------------------------
(* The backfill of a date when a store call up to the insert may raise.    *)

\* at most one call of a run raises, up to the calls of the insert
LateFailSets == FailSets \cup {{k} : k \in (MaxFailAt + 1)..(MaxFailAt + 4)}

FallbackSeeds ==
    RerunSeeds \cup
    {Sheet(DailyHeader, <<DailyRow(DateStr(FirstDay), "p1", "FINAL"),
                          DailyRow(DateStr(FirstDay), "p2", "FINAL")>>)}

InitFallback ==
    /\ daily \in FallbackSeeds
    /\ hourly = EmptySheet
    /\ today = FirstDay
    /\ last = Idle
    /\ prev = NoRun
    /\ hour = StartHour
    /\ feed = QuietDay
    /\ loop = NoTasks

NextFallback ==
    \E F \in LateFailSets :
        \/ BackfillDate(F)
        \/ Returned

SpecFallback == InitFallback /\ [][NextFallback]_vars

\* the calls of write_publisher_payouts before its try block
HeaderCalls == {"row_values", "update_header"}

\* the log positions of the calls of the finalize/delete/insert sequence that raised
SequenceFailures ==
    {i \in 1..Len(last.log) :
        ~last.log[i][3] /\ last.log[i][1] \notin (HeaderCalls \cup {"append_row"})}

\* the call was made by finalize_live_data_for_dates: its read or one of its patches
InFinalize(i) ==
    \/ last.log[i][1] = "update_cell"
    \/ /\ last.log[i][1] = "get_all_values"
       /\ Cardinality({j \in Calls(last.log, "get_all_values") : j < i}) = 1

BackfillFailed ==
    /\ last.op = "write_publisher_payouts"
    /\ ~last.clear
    /\ SequenceFailures # {}
    /\ ~last.exc

AppendedOneByOne ==
    Cardinality({i \in Calls(last.log, "append_row") : last.log[i][3]}) = Len(last.recs)

\* the rows the deletes left, in place, and the new rows after them
NewRowsAfterKept ==
    LET kept == Without(last.pre.rows, RemovedRows, 1)
        new == FinalRows(last.recs)
    IN  /\ Len(Post.rows) = Len(kept) + Len(new)
        /\ \A i \in 1..Len(kept) : SameRow(Post.rows[i], kept[i])
        /\ \A j \in 1..Len(new) : Post.rows[Len(kept) + j] = new[j]

NoDeleteAfter(i) == \A c \in DeleteCalls : c <= i

(* C38 (as stated)  When any store call of the finalize/delete/insert      *)
(* sequence of write_publisher_payouts(clear_existing=False) raises and no *)
(* fallback append raises, the call returns normally, the new rows are     *)
(* appended one by one after the last row, and no row is deleted after the *)
(* failure.                                                                *)
C38_FallbackOnAnyStoreError ==
    BackfillFailed =>
        /\ AppendedOneByOne
        /\ NewRowsAfterKept
        /\ \A i \in SequenceFailures : NoDeleteAfter(i)

(* C38  When a store call of the sequence raises outside                   *)
(* finalize_live_data_for_dates (a read of the sheet, a delete or the      *)
(* insert) and no fallback append raises, the call returns normally, the   *)
(* new rows are appended one by one after the last row and the rows in the *)
(* sheet at that moment are left in place; when the call that raises is    *)
(* one of finalize_live_data_for_dates, the failure is absorbed there, the *)
(* rows of the dates are deleted and the new rows are inserted with one    *)
(* update, nothing is appended.  Either way every new record is persisted  *)
(* after the rows that were kept.                                          *)
C38_FallbackOutsideFinalize ==
    BackfillFailed =>
        /\ NewRowsAfterKept
        /\ \A i \in SequenceFailures :
              IF InFinalize(i)
              THEN /\ Calls(last.log, "append_row") = {}
                   /\ RemovedRows = {r - 1 : r \in RowsOfDates(<<last.pre.hdr>> \o last.pre.rows,
                                                                last.dates)}
                   /\ \E u \in Calls(last.log, "update_rows") : last.log[u][3]
              ELSE /\ AppendedOneByOne
                   /\ NoDeleteAfter(i)

\* a delete raised after an earlier one went through; the fallback appended the new rows
C38_FallbackAfterDelete ==
    /\ BackfillFailed
    /\ \E i \in SequenceFailures : last.log[i][1] = "delete_rows" /\ RemovedRows # {}
    /\ AppendedOneByOne
    /\ Len(Post.rows) > Len(last.recs)

\* the read of finalize_live_data_for_dates raised and rows were deleted afterwards
C38_FinalizeFailureAbsorbed ==
    /\ BackfillFailed
    /\ \E i \in SequenceFailures : InFinalize(i) /\ ~NoDeleteAfter(i)

----------------------------------------------------------------------------
(* The Status-column migration on the headers the daily sheet can hold.    *)

\* the sorted keys of a six-key webhook body, as append_payload writes them
\* to an empty sheet
WebhookHeader == <<"Campaign", "Date", "Payout", "Publisher", "Target", "Time">>

MigrationHeaders ==
    HeaderShapes \cup
    {WebhookHeader,
     <<"Date", "Publisher", "Campaign", "Payout", "Target", "Time", "status">>,
     <<"Date", "Publisher", "Campaign", "Payout", "Target", "Time", "Notes">>,
     <<"Date", "", "Campaign">>}

MigrationSeeds ==
    {Sheet(h, rs) : h \in MigrationHeaders, rs \in SeqsUpTo(DailyRowTypes, 1)}

EnsureStatusColumn ==
    DailyStep(_ensure_status_column(Run(daily, {})), "_ensure_status_column", {}, <<>>, FALSE)

InitMigration ==
    /\ daily \in MigrationSeeds
    /\ hourly = EmptySheet
    /\ today = FirstDay
    /\ last = Idle
    /\ prev = NoRun
    /\ hour = StartHour
    /\ feed = QuietDay
    /\ loop = NoTasks

NextMigration ==
    \/ EnsureStatusColumn
    \/ Returned

SpecMigration == InitMigration /\ [][NextMigration]_vars

Migrated == last.op = "_ensure_status_column"

\* a second call right after the first writes nothing
SecondCallWritesNothing ==
    LET again == _ensure_status_column(Run(daily, {}))
    IN  /\ Calls(again.log, "update_header") = {}
        /\ SheetOf(again) = daily

\* every non-empty name of the header found is still in its column
NamesKept ==
    \A i \in 1..Len(last.pre.hdr) :
        last.pre.hdr[i] # "" => (Len(daily.hdr) >= i /\ daily.hdr[i] = last.pre.hdr[i])

HeaderUntouched ==
    /\ daily.hdr = last.pre.hdr
    /\ Calls(last.log, "update_header") = {}

(* C39  _ensure_status_column is idempotent (a second call right after the *)
(* first writes nothing); when it adds the Status name to a header that    *)
(* lacks it, no existing non-empty header name changes; a header that      *)
(* holds Status in any letter case is left unchanged.                      *)
C39_StatusMigration ==
    Migrated =>
        /\ SecondCallWritesNothing
        /\ ~HasStatus(last.pre.hdr) => NamesKept
        /\ HasStatus(last.pre.hdr) => HeaderUntouched

\* the call found a name in column F of a header without Status and replaced it
C39_NameInColumnFReplaced ==
    /\ Migrated
    /\ ~HasStatus(last.pre.hdr)
    /\ Len(last.pre.hdr) >= StatusIdx
    /\ last.pre.hdr[StatusIdx] # ""
    /\ daily.hdr[StatusIdx] = "Status"

\* the two parts of the migration that do not depend on column F
C39_IdempotentAndCaseBlind ==
    Migrated =>
        /\ SecondCallWritesNothing
        /\ HasStatus(last.pre.hdr) => HeaderUntouched
        /\ (~HasStatus(last.pre.hdr) /\ Len(last.pre.hdr) < StatusIdx) => NamesKept

====
